---------------------------- MODULE Spec2Model ----------------------------
(***************************************************************************)
(* A model of DeepScanner (src/src/deepScanner.ts): the workspace scanner  *)
(* of the SCSS-variables extension.  The state is the scanner's fields,    *)
(* the file system it reads, the pending setTimeout timers and the scan    *)
(* operations in flight.  Node runs the scanner on one thread, so a step   *)
(* of the model is one run-to-completion segment of code: from a callback  *)
(* (a file event, a timer, the completion of a file read, a command) to    *)
(* the next point where every call chain is suspended in an await.         *)
(***************************************************************************)
EXTENDS Integers, Sequences, FiniteSets, TLC

(***************************************************************************)
(* Bounds of the model.                                                    *)
(***************************************************************************)
\* What the environment does in one behaviour: disk changes (writes,
\* creations, deletions) and calls of scanWorkspace (activation, the Refresh
\* command), counted together.
MaxOps == 3
\* The debounce interval, in clock ticks.
DebounceTicks == 2
\* scssVariables.maxFilesPerBatch as configured in the modelled workspace.
MaxFilesPerBatch == 2
\* scssVariables.maxParallelScans as configured in the modelled workspace.
MaxParallelScans == 2

\* scssVariables.batchScanDelay (its default): positive, so the scan waits
\* after every batch.
BatchScanDelay == 100
\* scssVariables.maxScanDepth (its default)
DefaultMaxScanDepth == 30
\* scssVariables.maxFileSize (its default), in bytes
MaxFileSize == 1048576

(***************************************************************************)
(* Paths.  A path is a directory and a file name; the name is kept as its  *)
(* parts (leading underscores, stem, extension) so that the resolver's     *)
(* string operations are computed, not looked up.  An import string is a   *)
(* name without directory.                                                 *)
(***************************************************************************)
Root == "/w"

Name(us, stem, ext) == [us |-> us, stem |-> stem, ext |-> ext]

Path(dir, n) == [dir |-> dir, us |-> n.us, stem |-> n.stem, ext |-> n.ext]

FileA == Path(Root, Name(0, "a", ".scss"))
FileB == Path(Root, Name(0, "b", ".scss"))
FileC == Path(Root, Name(1, "c", ".scss"))
\* a.scss.css: a stylesheet whose path begins with the path of a.scss.
FileACss == Path(Root, Name(0, "a", ".scss.css"))

\* d.scss in src/dist: a stylesheet under a directory named dist that is not
\* a child of the workspace folder.
FileD == Path("/w/src/dist", Name(0, "d", ".scss"))

Files == {FileA, FileB, FileC, FileACss, FileD}

\* The order in which readDirectory lists the files of the workspace folder,
\* then those under its sub-directory.
FileOrder == <<FileA, FileACss, FileB, FileC, FileD>>

\* The directory names from the workspace folder down to the file.
DirsOf(p) == IF p.dir = "/w/src/dist" THEN <<"src", "dist">> ELSE <<>>

NoFile == [dir |-> "", us |-> 0, stem |-> "", ext |-> ""]

\* String.prototype.toLowerCase on the letters the model's names use.
LowerStr(s) ==
  CASE s = "A" -> "a"
    [] s = "B" -> "b"
    [] s = "C" -> "c"
    [] OTHER -> s

\* uri.fsPath.toLowerCase()
ToLowerCase(p) == [p EXCEPT !.stem = LowerStr(@), !.dir = LowerStr(@)]

\* path.dirname
Dirname(p) == p.dir

\* path.resolve(dir, importPath) for a relative import string
PathResolve(dir, imp) == Path(dir, imp)

\* resolvedPath.endsWith(".scss") || resolvedPath.endsWith(".css")
EndsWithStylesheetExt(p) == p.ext \in {".scss", ".css", ".scss.css"}

\* String.prototype.startsWith on the extensions the model's names use.
ExtStartsWith(ext, prefix) ==
  \/ prefix = ""
  \/ ext = prefix
  \/ ext = ".scss.css" /\ prefix = ".scss"

(***************************************************************************)
(* The workspaces the model starts from: which files exist and what each   *)
(* file imports.  A file's content is its version: version v of a file     *)
(* defines one variable, named after the file, with value v.               *)
(***************************************************************************)
Workspaces == {"cycle", "chain", "fan", "alias", "prefix", "skipped"}

InitialFiles(ws) ==
  CASE ws = "cycle" -> {FileA, FileB}
    [] ws = "chain" -> {FileA, FileB, FileC}
    [] ws = "fan"   -> {FileA, FileB, FileC}
    [] ws = "alias" -> {FileA, FileC}
    [] ws = "prefix" -> {FileA, FileACss}
    [] ws = "skipped" -> {FileA, FileB, FileD}

\* The @import / @use strings of file f in workspace ws, in source order.
ImportStatements(ws, f) ==
  CASE ws = "cycle" /\ f = FileA -> <<Name(0, "b", ".scss")>>
    [] ws = "cycle" /\ f = FileB -> <<Name(0, "a", ".scss")>>
    [] ws = "chain" /\ f = FileA -> <<Name(0, "b", ".scss")>>
    [] ws = "chain" /\ f = FileB -> <<Name(1, "c", ".scss")>>
    [] ws = "fan"   /\ f = FileA -> <<Name(1, "c", ".scss")>>
    [] ws = "fan"   /\ f = FileB -> <<Name(1, "c", ".scss")>>
    [] ws = "alias" /\ f = FileA -> <<Name(0, "c", "")>>
    [] ws = "skipped" /\ f = FileA -> <<Name(0, "b", ".scss")>>
    [] OTHER -> <<>>

\* The #{$name} interpolations of file f in workspace ws.
Interpolations(ws, f) ==
  CASE ws = "fan" /\ f = FileB -> <<"c">>
    [] OTHER -> <<>>

\* The size in bytes of file f in workspace ws, whatever its version: in
\* workspace "skipped" b.scss is one byte over the default maxFileSize.
FileSize(ws, f) ==
  IF ws = "skipped" /\ f = FileB THEN MaxFileSize + 1 ELSE 64

(***************************************************************************)
(* State.                                                                  *)
(***************************************************************************)
VARIABLES
  workspace,          \* which of Workspaces the behaviour runs in
  enableParallel,     \* scssVariables.enableParallelScanning
  disk,               \* the file system: per file, its version and presence
  localDefinitions,   \* DeepScanner.localDefinitions
  importCache,        \* DeepScanner.importCache, in Map insertion order
  processedFiles,     \* DeepScanner.processedFiles
  scanInProgress,     \* DeepScanner.scanInProgress
  debounceTimeout,    \* DeepScanner.debounceTimeout: "null", "pending", "fired"
  timers,             \* the setTimeout callbacks not yet run
  scans,              \* the scan operations in flight
  globalStorageCache, \* DeepScanner.globalStorageCache and what it stores
  edits,              \* disk changes so far
  fullScans,          \* scanWorkspace calls so far
  sinceEvent,         \* per file: ticks since its last change event
  scansInBurst,       \* per file: scans its current burst of events started
  owed,               \* files owed a rescan because an import was deleted
  session,            \* DeepScanner instances constructed so far
  original,           \* the index of the previous instance when it ended
  tree,               \* the directory tree under the workspace folder
  maxScanDepth,       \* scssVariables.maxScanDepth
  discovery,          \* what the discovery of a full scan came to
  disposed,           \* dispose() has been called
  content,            \* the text handed to extractVariables, and whether it ran
  resolution,         \* an import string and the file scanFile followed it to
  enableFileSystemCaching, \* scssVariables.enableFileSystemCaching
  held                \* what a consumer got from getLocalDefinitions

vars == <<workspace, enableParallel, disk, localDefinitions, importCache,
          processedFiles, scanInProgress, debounceTimeout, timers, scans,
          globalStorageCache, edits, fullScans, sinceEvent, scansInBurst,
          owed, session, original, tree, maxScanDepth, discovery, disposed,
          enableFileSystemCaching, content, resolution, held>>

\* What no operation of one scanner instance on a flat workspace changes
\* while the instance is in use.
instance ==
  <<session, original, tree, maxScanDepth, discovery, disposed,
    enableFileSystemCaching, content, resolution>>

(***************************************************************************)
(* Sequences.                                                              *)
(***************************************************************************)
\* Array.prototype.filter
Filter(s, Keep(_)) == SelectSeq(s, Keep)

\* How many elements of s equal x.
RECURSIVE Count(_, _)
Count(s, x) ==
  IF s = <<>> THEN 0
  ELSE (IF Head(s) = x THEN 1 ELSE 0) + Count(Tail(s), x)

\* The elements of s.
Range(s) == {s[i] : i \in DOMAIN s}

\* s without its element at index i.
RemoveAt(s, i) == SubSeq(s, 1, i - 1) \o SubSeq(s, i + 1, Len(s))

\* The first n elements of s (all of them when s is shorter).
Take(s, n) == SubSeq(s, 1, IF n < Len(s) THEN n ELSE Len(s))

\* s without its first n elements.
Drop(s, n) == SubSeq(s, (IF n < Len(s) THEN n ELSE Len(s)) + 1, Len(s))

(***************************************************************************)
(* The file system.                                                        *)
(***************************************************************************)
\* fs.existsSync
ExistsSync(p) == p \in DOMAIN disk /\ disk[p].present

(***************************************************************************)
(* Definitions and their extraction.                                       *)
(***************************************************************************)
\* The LocalDefinition pushed for the variable that version v of f defines.
VariableDefinition(f, v) ==
  [name |-> f.stem, kind |-> "variable", fileUri |-> f, ver |-> v,
   comment |-> ""]

\* The LocalDefinition pushed for an interpolation #{$n} found in f.
InterpolatedDefinition(f, v, n) ==
  [name |-> n, kind |-> "variable", fileUri |-> f, ver |-> v,
   comment |-> "Used in string interpolation"]

\* A LocalDefinition with its optional field importedFrom set to g.
ImportedDefinition(f, v, g) ==
  [name |-> f.stem, kind |-> "variable", fileUri |-> f, ver |-> v,
   comment |-> "", importedFrom |-> g]

\* extractScssVariables: the definitions pushed for version v of f.
extractScssVariables(defs, f, v) == Append(defs, VariableDefinition(f, v))

\* extractInterpolatedVariables: an interpolated name is pushed only when no
\* variable, map or list of that name is in the index yet, whatever its file.
RECURSIVE extractInterpolatedVariables(_, _, _, _)
extractInterpolatedVariables(defs, f, v, names) ==
  IF names = <<>> THEN defs
  ELSE LET n == Head(names)
           existing == \E i \in DOMAIN defs :
                          /\ defs[i].name = n
                          /\ defs[i].kind \in {"variable", "map", "list"}
       IN extractInterpolatedVariables(
            IF existing THEN defs ELSE Append(defs, InterpolatedDefinition(f, v, n)),
            f, v, Tail(names))

\* An extraction that pushes a part of the file's definitions only.
extractVariablesPartial(defs, f, v) ==
  extractInterpolatedVariables(defs, f, v, Interpolations(workspace, f))

\* extractVariables: the index after the definitions of version v of f are
\* pushed onto it.
extractVariables(defs, f, v) ==
  extractInterpolatedVariables(extractScssVariables(defs, f, v), f, v,
                               Interpolations(workspace, f))

\* extractImports: the import strings of the content read.
extractImports(f, v) == ImportStatements(workspace, f)

(***************************************************************************)
(* The import resolver inlined in scanFile.                                *)
(***************************************************************************)
\* No import has been followed on its own.
NoResolution == [imp |-> Name(0, "", ""), to |-> NoFile, done |-> FALSE]

\* A resolver that tries the partial name before the plain one.
ResolveImportPartialFirst(from, imp) ==
  LET resolved == PathResolve(Dirname(from), imp)
      withExt == IF /\ ~EndsWithStylesheetExt(resolved)
                    /\ ~ExistsSync(resolved)
                 THEN [resolved EXCEPT !.ext = @ \o ".scss"]
                 ELSE resolved
      partialPath == [withExt EXCEPT !.us = @ + 1]
      final == IF ExistsSync(partialPath) THEN partialPath ELSE withExt
  IN IF ExistsSync(final) THEN final ELSE NoFile

\* The path scanFile follows for import string imp found in file from, or
\* NoFile when nothing exists there.
ResolveImport(from, imp) ==
  LET resolved == PathResolve(Dirname(from), imp)
      withExt == IF /\ ~EndsWithStylesheetExt(resolved)
                    /\ ~ExistsSync(resolved)
                 THEN [resolved EXCEPT !.ext = @ \o ".scss"]
                 ELSE resolved
      partialPath == [withExt EXCEPT !.us = @ + 1]
      final == IF ~ExistsSync(withExt) /\ ExistsSync(partialPath)
               THEN partialPath
               ELSE withExt
  IN IF ExistsSync(final) THEN final ELSE NoFile

(***************************************************************************)
(* The import cache: a Map from file path to the file's import strings.    *)
(***************************************************************************)
MapHas(m, k) == \E i \in DOMAIN m : m[i].key = k

\* Map.prototype.set: an existing key keeps its place, a new one goes last.
MapSet(m, k, v) ==
  IF MapHas(m, k)
  THEN [i \in DOMAIN m |-> IF m[i].key = k THEN [key |-> k, value |-> v] ELSE m[i]]
  ELSE Append(m, [key |-> k, value |-> v])

\* Map.prototype.delete
MapDelete(m, k) == LET Keep(e) == e.key # k IN Filter(m, Keep)

\* findImportingFiles: the keys of the import cache one of whose import
\* strings, resolved against the key's directory, is exactly uri.
findImportingFiles(icache, uri) ==
  LET Imports(e) == \E j \in DOMAIN e.value :
                       PathResolve(Dirname(e.key), e.value[j]) = uri
      hits == Filter(icache, Imports)
  IN [i \in DOMAIN hits |-> hits[i].key]

(***************************************************************************)
(* vscode.Uri.  A path of the model stands for the file uri whose path     *)
(* component it is; the string form of a uri is a sequence of characters.  *)
(***************************************************************************)
\* The characters of the directory names, stems and extensions in use.
Chars(s) ==
  CASE s = "" -> <<>>
    [] s = "/w" -> <<"/", "w">>
    [] s = "/C:" -> <<"/", "C", ":">>
    [] s = "/c:" -> <<"/", "c", ":">>
    [] s = "%" -> <<"%">>
    [] s = "%25" -> <<"%", "2", "5">>
    [] s = "#" -> <<"#">>
    [] s = ".scss" -> <<".", "s", "c", "s", "s">>
    [] s = ".css" -> <<".", "c", "s", "s">>
    [] s = ".scss.css" -> <<".", "s", "c", "s", "s", ".", "c", "s", "s">>
    [] OTHER -> <<s>>

\* The path component of the uri: directory, separator and file name.
PathChars(p) ==
  Chars(p.dir) \o <<"/">> \o [i \in 1..p.us |-> "_"] \o Chars(p.stem)
    \o Chars(p.ext)

\* The directory names and stems of the definitions a cache may hold:
\* a drive letter in either case, characters that a uri escapes, and a
\* name that reads like an escape.
CacheDirs == {Root, "/C:", "/c:"}
CacheStems == {"a", "%", "%25", "#"}

\* The paths whose uris the model forms.
UriPaths ==
  Files \cup {Path(d, Name(0, st, ".scss")) : d \in CacheDirs, st \in CacheStems}

\* The path whose characters are cs (NoFile when it is none of UriPaths).
PathOf(cs) ==
  IF \E p \in UriPaths : PathChars(p) = cs
  THEN CHOOSE p \in UriPaths : PathChars(p) = cs
  ELSE NoFile

IsUpperCase(c) == c \in {"A", "B", "C"}

IsLetter(c) == c \in {"a", "b", "c", "s", "w", "A", "B", "C"}

\* URI.toString: "/C:/..." is formatted as "/c:/...".
LowerDriveLetter(cs) ==
  IF Len(cs) >= 3 /\ cs[1] = "/" /\ cs[3] = ":" /\ IsUpperCase(cs[2])
  THEN <<"/", LowerStr(cs[2])>> \o Drop(cs, 2)
  ELSE cs

\* encodeURIComponentFast for a path: letters, digits, "-", ".", "_", "~"
\* and "/" are kept, every other character becomes its escape.
EncodeChar(c) ==
  CASE c = "%" -> <<"%", "2", "5">>
    [] c = "#" -> <<"%", "2", "3">>
    [] c = ":" -> <<"%", "3", "A">>
    [] c = "?" -> <<"%", "3", "F">>
    [] OTHER -> <<c>>

RECURSIVE Encode(_)
Encode(cs) ==
  IF cs = <<>> THEN <<>> ELSE EncodeChar(Head(cs)) \o Encode(Tail(cs))

\* percentDecode: every escape becomes its character; a "%" that opens no
\* escape the model knows stays as it is.
RECURSIVE Decode(_)
Decode(cs) ==
  IF cs = <<>> THEN <<>>
  ELSE LET esc == IF Len(cs) >= 3 THEN SubSeq(cs, 1, 3) ELSE <<>>
       IN CASE esc = <<"%", "2", "5">> -> <<"%">> \o Decode(Drop(cs, 3))
            [] esc = <<"%", "2", "3">> -> <<"#">> \o Decode(Drop(cs, 3))
            [] esc = <<"%", "3", "A">> -> <<":">> \o Decode(Drop(cs, 3))
            [] esc = <<"%", "3", "F">> -> <<"?">> \o Decode(Drop(cs, 3))
            [] OTHER -> <<Head(cs)>> \o Decode(Tail(cs))

\* uri.toString(true): the components as they are, nothing escaped.
UriToStringSkipEncoding(p) ==
  <<"f", "i", "l", "e", ":", "/", "/">> \o LowerDriveLetter(PathChars(p))

\* vscode.Uri.toString of the file uri of path p.
UriToString(p) ==
  <<"f", "i", "l", "e", ":", "/", "/">> \o Encode(LowerDriveLetter(PathChars(p)))

\* The first position from i on where cs has a character of stop, or
\* Len(cs) + 1.
RECURSIVE FirstOf(_, _, _)
FirstOf(cs, i, stop) ==
  IF i > Len(cs) \/ cs[i] \in stop THEN i ELSE FirstOf(cs, i + 1, stop)

\* The components URI.parse finds in a string: scheme up to the first ":",
\* authority after "//", path up to "?" or "#", query up to "#", fragment.
UriComponents(cs) ==
  LET colon == FirstOf(cs, 1, {":", "/", "?", "#"})
      hasScheme == colon > 1 /\ colon <= Len(cs) /\ cs[colon] = ":"
      a == IF hasScheme THEN colon + 1 ELSE 1
      hasAuthority == a + 1 <= Len(cs) /\ cs[a] = "/" /\ cs[a + 1] = "/"
      b == IF hasAuthority THEN FirstOf(cs, a + 2, {"/", "?", "#"}) ELSE a
      c == FirstOf(cs, b, {"?", "#"})
      d == FirstOf(cs, c, {"#"})
  IN [scheme |-> IF hasScheme THEN SubSeq(cs, 1, colon - 1) ELSE <<>>,
      authority |-> IF hasAuthority THEN Decode(SubSeq(cs, a + 2, b - 1)) ELSE <<>>,
      path |-> Decode(SubSeq(cs, b, c - 1)),
      query |-> Decode(SubSeq(cs, c + 1, d - 1)),
      fragment |-> Decode(SubSeq(cs, d + 1, Len(cs)))]

\* vscode.Uri.parse: the path of the file uri the string denotes (NoFile
\* when it denotes no file uri of UriPaths).
UriParse(cs) ==
  LET u == UriComponents(cs)
  IN IF /\ u.scheme = <<"f", "i", "l", "e">>
        /\ u.authority = <<>>
        /\ u.query = <<>>
        /\ u.fragment = <<>>
     THEN PathOf(u.path)
     ELSE NoFile

\* uri.fsPath: the path component, a drive letter in lower case and
\* without the slash before it.
FsPath(p) ==
  LET cs == PathChars(p)
  IN IF Len(cs) >= 3 /\ cs[1] = "/" /\ IsLetter(cs[2]) /\ cs[3] = ":"
     THEN <<LowerStr(cs[2])>> \o Drop(cs, 2)
     ELSE cs

(***************************************************************************)
(* The persisted cache.                                                    *)
(***************************************************************************)
\* The value undefined of an optional uri field.
Undefined == [undefined |-> TRUE]

\* Reading field k of object d.
Field(d, k) == IF k \in DOMAIN d THEN d[k] ELSE Undefined

\* updateCache: the object stored for definition d.  fileUri becomes a
\* string, importedFrom a string or undefined; the store keeps JSON, which
\* has no field for undefined.
SerializableDef(d) ==
  IF Field(d, "importedFrom") = Undefined
  THEN [name |-> d.name, kind |-> d.kind, fileUri |-> UriToString(d.fileUri),
        ver |-> d.ver, comment |-> d.comment]
  ELSE [name |-> d.name, kind |-> d.kind, fileUri |-> UriToString(d.fileUri),
        ver |-> d.ver, comment |-> d.comment,
        importedFrom |-> UriToString(d.importedFrom)]

\* updateCache: the value stored under "localDefinitions".
Serialize(defs) == [i \in DOMAIN defs |-> SerializableDef(defs[i])]

\* The constructor's conversion of one cached object: both uri fields are
\* assigned, importedFrom with undefined when the object has none.
CachedDef(c) ==
  [name |-> c.name, kind |-> c.kind, fileUri |-> UriParse(c.fileUri),
   ver |-> c.ver, comment |-> c.comment,
   importedFrom |-> IF "importedFrom" \in DOMAIN c
                    THEN UriParse(c.importedFrom)
                    ELSE Undefined]

\* The constructor's conversion of the cached objects.
Deserialize(stored) == [i \in DOMAIN stored |-> CachedDef(stored[i])]

updateCache(cache, defs) ==
  IF cache.present THEN [cache EXCEPT !.stored = Serialize(defs)] ELSE cache

(***************************************************************************)
(* Scan operations in flight.  A scan operation (one call of scanWorkspace *)
(* or of scanSingleFileAndDependents) owns call chains of scanFile; a      *)
(* chain is the stack of scanFile frames from a file handed to scanFile    *)
(* down to the import whose read is awaited.  The operators below work on  *)
(* a record w of the scanner's fields together with the operation t that   *)
(* is running, and are computed as the code runs, statement by statement,  *)
(* up to the next await that suspends.                                     *)
(***************************************************************************)
Frame(uri, track) ==
  [uri |-> uri, state |-> "reading", ver |-> 0, idx |-> 1, track |-> track]

NewScan(kind, uri, epoch, age) ==
  [kind |-> kind, pc |-> IF kind = "full" THEN "discover" ELSE "scan",
   uri |-> uri, phase |-> "self", importers |-> <<>>,
   files |-> <<>>, i |-> 0, rest |-> <<>>, chains |-> <<>>,
   cancelRequested |-> FALSE, cancelled |-> FALSE,
   submitted |-> <<>>, cancelBatch |-> -1, failed |-> {},
   okReads |-> <<>>, reports |-> <<>>,
   visited |-> {}, skipped |-> {}, extracted |-> <<>>,
   epoch |-> epoch, startAge |-> age, overlapped |-> FALSE,
   before |-> LET From(def) == def.fileUri = uri
              IN SelectSeq(localDefinitions, From),
   emptyIndex |-> localDefinitions = <<>>]

\* No consumer holds a value returned by getLocalDefinitions.
NotHeld == [taken |-> FALSE, alias |-> FALSE, value |-> <<>>]

\* this.localDefinitions = this.localDefinitions.filter(...): the field is
\* assigned a new array.  An array a consumer holds is the field's array no
\* longer and keeps the elements defs it has.
Reassigned(h, defs) ==
  IF h.taken /\ h.alias THEN [h EXCEPT !.alias = FALSE, !.value = defs] ELSE h

World(t) ==
  [defs |-> localDefinitions, icache |-> importCache, proc |-> processedFiles,
   inProgress |-> scanInProgress, cache |-> globalStorageCache, t |-> t,
   held |-> held]

\* scanFile up to its first await: the cycle guard and the mark.
CallScanFile(w, k, uri, track) ==
  IF ToLowerCase(uri) \in w.proc
  THEN [w EXCEPT !.t.skipped = IF uri \in w.t.visited THEN @ ELSE @ \cup {uri}]
  ELSE [w EXCEPT !.proc = @ \cup {ToLowerCase(uri)},
                 !.t.visited = @ \cup {uri},
                 !.t.chains[k] = Append(@, Frame(uri, track))]

\* A frame returns: its caller goes on with the next import.
ReturnFrame(stack) ==
  LET below == SubSeq(stack, 1, Len(stack) - 1)
  IN IF below = <<>> THEN below
     ELSE [below EXCEPT ![Len(below)].idx = @ + 1]

\* scanFile after its read: the loop over the imports, the recursive calls
\* and extractVariables, for chain k, until a read is awaited or the chain
\* has returned.
RECURSIVE ContinueChain(_, _)
ContinueChain(w, k) ==
  LET stack == w.t.chains[k] IN
  IF stack = <<>> THEN w
  ELSE
    LET top == stack[Len(stack)]
        imports == extractImports(top.uri, top.ver)
    IN IF top.state = "reading" THEN w
       ELSE IF top.idx > Len(imports)
       THEN LET defs == extractVariables(w.defs, top.uri, top.ver)
                pushed == SubSeq(defs, Len(w.defs) + 1, Len(defs))
            IN ContinueChain([w EXCEPT !.defs = defs,
                                       !.t.extracted = @ \o pushed,
                                       !.t.chains[k] = ReturnFrame(stack)], k)
       ELSE LET resolvedPath == ResolveImport(top.uri, imports[top.idx])
            IN IF resolvedPath = NoFile
               THEN ContinueChain(
                      [w EXCEPT !.t.chains[k][Len(stack)].idx = @ + 1], k)
               ELSE LET called == CallScanFile(w, k, resolvedPath, top.track)
                    IN IF Len(called.t.chains[k]) > Len(stack)
                       THEN called
                       ELSE ContinueChain(
                              [called EXCEPT !.t.chains[k][Len(stack)].idx = @ + 1], k)

\* A scanFile without its catch block: a failed read ends the whole chain of
\* calls, none of the callers goes on.
ReadSettledUncaught(w, k) ==
  LET stack == w.t.chains[k]
      top == stack[Len(stack)]
  IN IF ~ExistsSync(top.uri)
     THEN [w EXCEPT !.t.chains[k] = <<>>, !.t.failed = @ \cup {top.uri}]
     ELSE LET ver == disk[top.uri].ver
              w1 == [w EXCEPT !.t.chains[k][Len(stack)].state = "importing",
                              !.t.chains[k][Len(stack)].ver = ver,
                              !.t.okReads = Append(@, top.uri),
                              !.icache = IF top.track
                                         THEN MapSet(@, top.uri, extractImports(top.uri, ver))
                                         ELSE @]
          IN ContinueChain(w1, k)

\* The awaited readFile of chain k settles: on failure the catch block logs
\* and the frame returns; on success the imports are recorded (when tracked)
\* and the frame goes on.  The operation notes the files whose read failed
\* and those whose read succeeded (observations).
ReadSettled(w, k) ==
  LET stack == w.t.chains[k]
      top == stack[Len(stack)]
  IN IF ~ExistsSync(top.uri)
     THEN ContinueChain([w EXCEPT !.t.chains[k] = ReturnFrame(stack),
                                  !.t.failed = @ \cup {top.uri}], k)
     ELSE LET ver == disk[top.uri].ver
              w1 == [w EXCEPT !.t.chains[k][Len(stack)].state = "importing",
                              !.t.chains[k][Len(stack)].ver = ver,
                              !.t.okReads = Append(@, top.uri),
                              !.icache = IF top.track
                                         THEN MapSet(@, top.uri, extractImports(top.uri, ver))
                                         ELSE @]
          IN ContinueChain(w1, k)

\* chunk.map((file) => this.scanFile(file, true)): every call runs up to its
\* first await before any read settles.
RECURSIVE CallAll(_, _, _)
CallAll(w, files, k) ==
  IF k > Len(files) THEN w
  ELSE CallAll(CallScanFile(w, k, files[k], TRUE), files, k + 1)

AllReturned(t) == \A k \in DOMAIN t.chains : t.chains[k] = <<>>

\* The files scanFile is called on together: a chunk of the batch in
\* parallel mode, one file in sequential mode.
ChunkSize == IF enableParallel THEN MaxParallelScans ELSE 1

\* The finally block of scanWorkspace.
FinishFull(w, cancelled) ==
  [w EXCEPT !.inProgress = FALSE, !.t.pc = "done", !.t.cancelled = cancelled,
            !.t.chains = <<>>, !.t.rest = <<>>]

\* The body of scanWorkspace's batch loop from the point where the chains
\* of a chunk have all returned.
RECURSIVE ContinueBatch(_)
ContinueBatch(w) ==
  IF ~AllReturned(w.t) THEN w
  ELSE IF w.t.rest # <<>>
  THEN LET chunk == Take(w.t.rest, ChunkSize)
           w1 == [w EXCEPT !.t.rest = Drop(@, ChunkSize),
                           !.t.submitted = @ \o chunk,
                           !.t.chains = [k \in 1..Len(chunk) |-> <<>>]]
       IN ContinueBatch(CallAll(w1, chunk, 1))
  ELSE [w EXCEPT !.t.pc = "delay", !.t.chains = <<>>]

\* A batch loop that never reads the cancellation token.
BatchHeadIgnoringToken(w) ==
  IF w.t.i >= Len(w.t.files) THEN FinishFull(w, FALSE)
  ELSE LET batch == Take(Drop(w.t.files, w.t.i), MaxFilesPerBatch)
       IN ContinueBatch([w EXCEPT !.t.pc = "scan", !.t.rest = batch,
                                  !.t.reports = Append(@, w.t.i + Len(batch))])

\* The head of the batch loop for the batch starting at files[i]: the
\* cancellation test, the progress report (the count reported is noted in
\* reports), then the files of the batch.
BatchHead(w) ==
  IF w.t.i >= Len(w.t.files) THEN FinishFull(w, FALSE)
  ELSE IF w.t.cancelRequested THEN FinishFull(w, TRUE)
  ELSE LET batch == Take(Drop(w.t.files, w.t.i), MaxFilesPerBatch)
       IN ContinueBatch([w EXCEPT !.t.pc = "scan", !.t.rest = batch,
                                  !.t.reports = Append(@, w.t.i + Len(batch))])

\* scssVariables.excludedFolders (its default)
ExcludedFolders == {"node_modules", "dist", "build"}

\* findScssFiles on the workspace root: the stylesheet files there are, but
\* those over the size limit and those under an excluded directory.
findScssFiles ==
  LET Found(p) ==
        /\ ExistsSync(p) /\ EndsWithStylesheetExt(p)
        /\ FileSize(workspace, p) <= MaxFileSize
        /\ \A j \in DOMAIN DirsOf(p) : DirsOf(p)[j] \notin ExcludedFolders
  IN SelectSeq(FileOrder, Found)

\* scanSingleFileAndDependents from the point where the chain of a scanFile
\* call has returned: the importers are looked up once, then each is cleared
\* from the index and scanned; after the last the cache is written and the
\* finally block runs.
RECURSIVE ContinueIncremental(_)
ContinueIncremental(w) ==
  IF ~AllReturned(w.t) THEN w
  ELSE IF w.t.phase = "self"
  THEN ContinueIncremental(
         [w EXCEPT !.t.phase = "dependents",
                   !.t.importers = findImportingFiles(w.icache, w.t.uri)])
  ELSE IF w.t.importers = <<>>
  THEN [w EXCEPT !.cache = updateCache(@, w.defs), !.inProgress = FALSE,
                 !.t.pc = "done", !.t.chains = <<>>]
  ELSE LET importer == Head(w.t.importers)
           Other(def) == def.fileUri # importer
           w1 == [w EXCEPT !.defs = Filter(@, Other), !.proc = {},
                           !.held = Reassigned(@, w.defs),
                           !.t.importers = Tail(@), !.t.chains = << <<>> >>]
       IN ContinueIncremental(CallScanFile(w1, 1, importer, FALSE))

\* A scanSingleFileAndDependents that scans the changed file with import
\* tracking.
StartIncrementalTracking(w, uri) ==
  LET Other(def) == def.fileUri # uri
      w1 == [w EXCEPT !.inProgress = TRUE, !.defs = Filter(@, Other),
                      !.held = Reassigned(@, w.defs),
                      !.proc = {}, !.t.chains = << <<>> >>]
  IN ContinueIncremental(CallScanFile(w1, 1, uri, TRUE))

\* scanSingleFileAndDependents up to its first await.
StartIncremental(w, uri) ==
  LET Other(def) == def.fileUri # uri
      w1 == [w EXCEPT !.inProgress = TRUE, !.defs = Filter(@, Other),
                      !.held = Reassigned(@, w.defs),
                      !.proc = {}, !.t.chains = << <<>> >>]
  IN ContinueIncremental(CallScanFile(w1, 1, uri, FALSE))

\* A scan operation goes on after one of its reads has settled.
ContinueScan(w) ==
  IF w.t.kind = "full" THEN ContinueBatch(w) ELSE ContinueIncremental(w)

(***************************************************************************)
(* The debounce timer.  A timer is a pending setTimeout callback: the file *)
(* it will scan, the ticks left, and whether debounceTimeout holds its id. *)
(* The operators work on a record h of debounceTimeout, the timers and the *)
(* event clocks.                                                           *)
(***************************************************************************)
\* relativePath.startsWith(folder + path.sep) for a file of the model: its
\* directory, relative to the workspace root, is an excluded folder.
InExcludedFolder(p) == \E folder \in ExcludedFolders : p.dir = Root \o "/" \o folder

Handles ==
  [dt |-> debounceTimeout, timers |-> timers, since |-> sinceEvent,
   burst |-> scansInBurst]

\* onFileChanged(uri)
onFileChanged(h, uri) ==
  IF InExcludedFolder(uri) THEN h
  ELSE LET NotCurrent(t) == ~t.cur
           kept == IF h.dt # "null" THEN Filter(h.timers, NotCurrent) ELSE h.timers
       IN [dt |-> "pending",
           timers |-> Append(kept, [uri |-> uri, rem |-> DebounceTicks, cur |-> TRUE]),
           since |-> [h.since EXCEPT ![uri] = 0],
           burst |-> [h.burst EXCEPT
                        ![uri] = IF h.since[uri] >= DebounceTicks THEN 0 ELSE @]]

\* for (const importer of importers) this.onFileChanged(importer)
RECURSIVE onFileChangedEach(_, _)
onFileChangedEach(h, uris) ==
  IF uris = <<>> THEN h
  ELSE onFileChangedEach(onFileChanged(h, Head(uris)), Tail(uris))

\* def.fileUri.fsPath.toLowerCase().startsWith(uri.fsPath.toLowerCase())
StartsWith(p, prefix) ==
  /\ ToLowerCase(p).dir = ToLowerCase(prefix).dir
  /\ p.us = prefix.us
  /\ ToLowerCase(p).stem = ToLowerCase(prefix).stem
  /\ ExtStartsWith(p.ext, prefix.ext)

(***************************************************************************)
(* File discovery.  A node of the directory tree is the directory names    *)
(* from the workspace folder down and, for a file, its extension (a        *)
(* directory holds at most one file of each extension).                    *)
(***************************************************************************)
\* The workspace folder itself.
RootNode == [dirs |-> <<>>, ext |-> ""]

\* The directory names of the tree, in the order readDirectory lists them.
DirNames == <<"dist", "src", "tmp">>

\* The extensions of the tree's files, in the order readDirectory lists them.
FileExts == <<".scss", ".txt">>

\* The directory names of scssVariables.additionalExcludePatterns (their
\* default: "**/dist/**", "**/tmp/**", ...) that the tree uses.
ExcludePatternNames == {"dist", "tmp"}

\* path.basename(uri.fsPath)
Basename(node) ==
  IF node.dirs = <<>> THEN tree.rootName ELSE node.dirs[Len(node.dirs)]

\* An exclusion that looks at the directories of the workspace folder only.
IsExcludedFolderAtTop(node) ==
  Len(node.dirs) <= 1 /\ Basename(node) \in ExcludedFolders

\* excludedFolders.includes(dirName)
IsExcludedFolder(node) == Basename(node) \in ExcludedFolders

\* additionalExcludePatterns.some(...): "**/name/**" becomes the regular
\* expression .*/name/.* and is tested on the directory's path relative to
\* the workspace folder: name must be a segment with one before and one
\* after it.  (The workspace folder's own path has no such segment.)
MatchesExcludePattern(node) ==
  \E j \in 2..(Len(node.dirs) - 1) : node.dirs[j] \in ExcludePatternNames

\* A depth test that stops one level early.
TooDeepAtBound(currentDepth) == currentDepth >= maxScanDepth

\* currentDepth > maxDepth
TooDeep(currentDepth) == currentDepth > maxScanDepth

\* vscode.workspace.fs.stat: the type and size of the node; "error" when
\* stat throws.
Stat(node) ==
  IF node.ext # ""
  THEN LET e == CHOOSE e \in tree.files : e.dirs = node.dirs /\ e.ext = node.ext
       IN [type |-> e.type, size |-> e.size]
  ELSE IF node.dirs = <<>> /\ tree.root # "dir"
  THEN [type |-> "error", size |-> 0]
  ELSE [type |-> "Directory", size |-> 0]

\* vscode.workspace.fs.readDirectory: the files of the directory, then its
\* sub-directories.
ReadDirectory(node) ==
  LET n == Len(node.dirs)
      Under(e) == Len(e.dirs) >= n /\ SubSeq(e.dirs, 1, n) = node.dirs
      HasFile(x) == \E e \in tree.files : e.dirs = node.dirs /\ e.ext = x
      HasDir(d) == \E e \in tree.files :
                      Under(e) /\ Len(e.dirs) > n /\ e.dirs[n + 1] = d
      exts == SelectSeq(FileExts, HasFile)
      subs == SelectSeq(DirNames, HasDir)
  IN [i \in DOMAIN exts |-> [dirs |-> node.dirs, ext |-> exts[i]]]
       \o [i \in DOMAIN subs |-> [dirs |-> Append(node.dirs, subs[i]), ext |-> ""]]

\* findScssFiles(uri, currentDepth).  Parallel and sequential mode push the
\* results of the entries in the order of the entries.
RECURSIVE findScssFilesIn(_, _)
findScssFilesIn(node, currentDepth) ==
  IF TooDeep(currentDepth) THEN <<>>
  ELSE LET stats == Stat(node)
           RECURSIVE Each(_)
           Each(entries) ==
             IF entries = <<>> THEN <<>>
             ELSE findScssFilesIn(Head(entries), currentDepth + 1)
                    \o Each(Tail(entries))
       IN IF stats.type = "error" THEN <<>>
          ELSE IF stats.type = "File" /\ stats.size > MaxFileSize THEN <<>>
          ELSE IF stats.type = "Directory"
          THEN IF IsExcludedFolder(node) THEN <<>>
               ELSE IF MatchesExcludePattern(node) THEN <<>>
               ELSE Each(ReadDirectory(node))
          ELSE IF stats.type = "File"
          THEN IF EndsWithStylesheetExt(node) THEN <<node>> ELSE <<>>
          ELSE <<>>

\* The tree of the flat workspaces: discovery is findScssFiles above.
FlatTree == [rootName |-> "w", root |-> "dir", files |-> {}]

\* No discovery has run.
NotRun == [state |-> "idle", files |-> <<>>, errorShown |-> FALSE, calls |-> {}]

NoDiscovery ==
  /\ tree = FlatTree
  /\ maxScanDepth = DefaultMaxScanDepth
  /\ discovery = NotRun

(***************************************************************************)
(* The extractors on text.  A content is the sequence of its characters;   *)
(* the regular expressions of the extractors are computed position by      *)
(* position, greedy and lazy quantifiers as the engine resolves them.      *)
(* The contents of the model have no line that begins with "--", "@mixin"  *)
(* or "@function", none that ends with "(" and no "#{": the extractors of  *)
(* custom properties, mixins, functions, multi-line collections and        *)
(* interpolations push nothing for them.  The comment above a definition   *)
(* is left out of the definitions.                                         *)
(***************************************************************************)
\* How many lines a content has at most.
MaxLines == 3

\* [\w-]
WordChars ==
  {"a", "b", "c", "d", "f", "g", "k", "l", "m", "n", "p", "q", "r", "s", "v",
   "x", "y", "0", "1", "2", "_", "-"}

\* The characters of the contents.
Alphabet ==
  WordChars \cup {"$", "@", ":", ";", "(", ")", ",", " ", "#", "/", "\n"}

\* [^\s] on a line
NotSpace == Alphabet \ {" "}

\* The lines the contents are made of.
Line(n) ==
  CASE n = "color-a" ->    \* $a: #f;
         <<"$", "a", ":", " ", "#", "f", ";">>
    [] n = "color-b" ->    \* $b: $a;
         <<"$", "b", ":", " ", "$", "a", ";">>
    [] n = "css-ref" ->    \* $c: var(--d);
         <<"$", "c", ":", " ", "v", "a", "r", "(", "-", "-", "d", ")", ";">>
    [] n = "shadows" ->    \* $m: (s: r(0,0), l: 1);
         <<"$", "m", ":", " ", "(", "s", ":", " ", "r", "(", "0", ",", "0",
           ")", ",", " ", "l", ":", " ", "1", ")", ";">>
    [] n = "nested" ->     \* $n: (k: (p: 1), q: 2);
         <<"$", "n", ":", " ", "(", "k", ":", " ", "(", "p", ":", " ", "1",
           ")", ",", " ", "q", ":", " ", "2", ")", ";">>
    [] n = "list" ->       \* $l: (x, , y);
         <<"$", "l", ":", " ", "(", "x", ",", " ", ",", " ", "y", ")", ";">>
    [] n = "start" ->      \* $f: x,
         <<"$", "f", ":", " ", "x", ",">>
    [] n = "end" ->        \*  y;
         <<" ", "y", ";">>
    [] n = "end-ref" ->    \* $g;
         <<"$", "g", ";">>
    [] n = "comment" ->    \* // c
         <<"/", "/", " ", "c">>

LineNames ==
  {"color-a", "color-b", "css-ref", "shadows", "nested", "list", "start",
   "end", "end-ref", "comment"}

\* Array.prototype.join("\n")
RECURSIVE Join(_)
Join(lines) ==
  IF Len(lines) = 1 THEN Head(lines)
  ELSE Head(lines) \o <<"\n">> \o Join(Tail(lines))

\* content.split("\n")
RECURSIVE SplitLines(_)
SplitLines(cs) ==
  LET n == FirstOf(cs, 1, {"\n"})
  IN IF n > Len(cs) THEN <<cs>>
     ELSE <<SubSeq(cs, 1, n - 1)>> \o SplitLines(SubSeq(cs, n + 1, Len(cs)))

\* String.prototype.trim
Trim(cs) ==
  LET S == {j \in 1..Len(cs) : cs[j] # " "}
  IN IF S = {} THEN <<>>
     ELSE SubSeq(cs, CHOOSE j \in S : \A k \in S : j <= k,
                     CHOOSE j \in S : \A k \in S : k <= j)

\* ^\s*(\$[\w-]+)\s*:\s*  the head the four regular expressions for
\* variables share: the name with its sigil, and the position after the
\* colon and the spaces that follow it.
VarHead(line) ==
  LET a == FirstOf(line, 1, NotSpace)
      b == FirstOf(line, a + 1, Alphabet \ WordChars)
      c == FirstOf(line, b, NotSpace)
      ok == /\ a <= Len(line) /\ line[a] = "$"
            /\ b > a + 1
            /\ c <= Len(line) /\ line[c] = ":"
  IN [ok |-> ok,
      name |-> IF ok THEN SubSeq(line, a, b - 1) ELSE <<>>,
      rest |-> IF ok THEN FirstOf(line, c + 1, NotSpace) ELSE 0]

\* scssVariableRegex: the head, then [^;(]* to the first ";" or "("; from a
\* "(" on, [^)]* to the first ")" and [^;]* to the first ";" after it.
\* end is the position of the ";" that closes the match.
ScssVariableMatch(line) ==
  LET h == VarHead(line)
      q == FirstOf(line, h.rest, {";", "("})
      r == FirstOf(line, q + 1, {")"})
      s == FirstOf(line, r + 1, {";"})
      end == IF ~h.ok \/ q > Len(line) THEN 0
             ELSE IF line[q] = ";" THEN q
             ELSE IF r <= Len(line) /\ s <= Len(line) THEN s
             ELSE 0
  IN [ok |-> end > 0, name |-> h.name, end |-> end]

\* multilineEndRegex ^\s*([^$@].*?);  \s* takes as many of the leading
\* spaces as leave a character other than "$" and "@" with a ";" after it;
\* text is the group: from that character up to the first such ";".
MultilineEndMatch(line) ==
  LET n == FirstOf(line, 1, NotSpace) - 1
      Ok(k) == /\ k + 1 <= Len(line)
               /\ line[k + 1] \notin {"$", "@"}
               /\ FirstOf(line, k + 2, {";"}) <= Len(line)
      ks == {k \in 0..n : Ok(k)}
      k == CHOOSE k \in ks : \A l \in ks : l <= k
  IN IF ks = {} THEN [ok |-> FALSE, text |-> <<>>]
     ELSE [ok |-> TRUE,
           text |-> SubSeq(line, k + 1, FirstOf(line, k + 2, {";"}) - 1)]

\* extractVariableReferences: every match of \$[\w-]+ without its sigil,
\* then the name of every match of var\(\s*--([\w-]+)\s*\).
extractVariableReferences(value) ==
  LET RECURSIVE ScssRefs(_)
      ScssRefs(i) ==
        LET a == FirstOf(value, i, {"$"})
            b == FirstOf(value, a + 1, Alphabet \ WordChars)
        IN IF a > Len(value) THEN <<>>
           ELSE IF b > a + 1
           THEN <<SubSeq(value, a + 1, b - 1)>> \o ScssRefs(b)
           ELSE ScssRefs(a + 1)
      RECURSIVE CssRefs(_)
      CssRefs(i) ==
        IF i + 3 > Len(value) THEN <<>>
        ELSE LET j == FirstOf(value, i + 4, NotSpace)
                 k == FirstOf(value, j + 2, Alphabet \ WordChars)
                 l == FirstOf(value, k, NotSpace)
                 ok == /\ SubSeq(value, i, i + 3) = <<"v", "a", "r", "(">>
                       /\ j + 1 <= Len(value)
                       /\ value[j] = "-" /\ value[j + 1] = "-"
                       /\ k > j + 2
                       /\ l <= Len(value) /\ value[l] = ")"
             IN IF ok THEN <<SubSeq(value, j + 2, k - 1)>> \o CssRefs(l + 1)
                ELSE CssRefs(i + 1)
  IN ScssRefs(1) \o CssRefs(1)

\* extractScssVariables, its loop over the lines for "$" variables: the
\* definitions pushed onto defs.  mv is multilineVar; line numbers start
\* at 0.
extractScssVariablesIn(defs0, lines) ==
  LET none == [on |-> FALSE, name |-> <<>>, value |-> <<>>, line |-> 0]
      RECURSIVE Loop(_, _, _)
      Loop(i, mv, defs) ==
        IF i > Len(lines) THEN defs
        ELSE
          LET line == lines[i]
              endMatch == MultilineEndMatch(line)
              head == VarHead(line)
              match == ScssVariableMatch(line)
              ended == mv.value \o <<" ">> \o Trim(endMatch.text)
              single == Trim(SubSeq(line, 1, match.end))
          IN IF mv.on
             THEN IF endMatch.ok
                  THEN Loop(i + 1, none,
                         Append(defs,
                           [name |-> Tail(mv.name),
                            value |-> <<"$">> \o mv.name \o <<":", " ">> \o ended,
                            kind |-> "variable", line |-> mv.line,
                            references |-> extractVariableReferences(ended)]))
                  ELSE IF SubSeq(Trim(line), 1, 2) = <<"/", "/">>
                  THEN Loop(i + 1, mv, defs)
                  ELSE Loop(i + 1,
                         [mv EXCEPT !.value = @ \o <<" ">> \o Trim(line)], defs)
             ELSE IF head.ok /\ ";" \notin Range(line)
             THEN Loop(i + 1,
                    [on |-> TRUE, name |-> head.name,
                     value |-> Trim(SubSeq(line, head.rest, Len(line))),
                     line |-> i - 1],
                    defs)
             ELSE IF match.ok
             THEN Loop(i + 1, mv,
                    Append(defs,
                      [name |-> Tail(match.name), value |-> single,
                       kind |-> "variable", line |-> i - 1,
                       references |-> extractVariableReferences(single)]))
             ELSE Loop(i + 1, mv, defs)
  IN Loop(1, none, defs0)

\* inlineMapRegex ^\s*(\$[\w-]+)\s*:\s*\((.*)\)\s*;  the head, "(", and .*
\* up to the last ")" that has only spaces between it and a ";".  inner is
\* the group.
InlineMapMatch(line) ==
  LET h == VarHead(line)
      Closes(r) == /\ line[r] = ")"
                   /\ FirstOf(line, r + 1, NotSpace) <= Len(line)
                   /\ line[FirstOf(line, r + 1, NotSpace)] = ";"
      rs == IF h.ok /\ h.rest <= Len(line) /\ line[h.rest] = "("
            THEN {r \in (h.rest + 1)..Len(line) : Closes(r)}
            ELSE {}
      r == CHOOSE r \in rs : \A l \in rs : l <= r
  IN IF rs = {} THEN [ok |-> FALSE, name |-> <<>>, inner |-> <<>>]
     ELSE [ok |-> TRUE, name |-> h.name,
           inner |-> SubSeq(line, h.rest + 1, r - 1)]

\* splitMapEntries: the string is cut at the commas met while parenLevel is
\* 0; every piece is trimmed, the last is dropped when empty.
splitMapEntries(mapString) ==
  LET RECURSIVE Loop(_, _, _, _)
      Loop(i, current, parenLevel, entries) ==
        IF i > Len(mapString)
        THEN IF Trim(current) # <<>> THEN Append(entries, Trim(current))
             ELSE entries
        ELSE LET char == mapString[i]
             IN IF char = "("
                THEN Loop(i + 1, Append(current, char), parenLevel + 1, entries)
                ELSE IF char = ")"
                THEN Loop(i + 1, Append(current, char), parenLevel - 1, entries)
                ELSE IF char = "," /\ parenLevel = 0
                THEN Loop(i + 1, <<>>, parenLevel, Append(entries, Trim(current)))
                ELSE Loop(i + 1, Append(current, char), parenLevel, entries)
  IN Loop(1, <<>>, 0, <<>>)

\* splitListItems: the same statements as splitMapEntries.
splitListItems(listString) == splitMapEntries(listString)

\* entry.split(":")
RECURSIVE SplitColon(_)
SplitColon(cs) ==
  LET n == FirstOf(cs, 1, {":"})
  IN IF n > Len(cs) THEN <<cs>>
     ELSE <<SubSeq(cs, 1, n - 1)>> \o SplitColon(SubSeq(cs, n + 1, Len(cs)))

\* extractComplexTypes for the collections written on one line: the
\* definitions pushed onto defs.  A map keeps the entries that split(":")
\* cuts in two.
extractComplexTypesIn(defs0, lines) ==
  LET RECURSIVE Loop(_, _)
      Loop(i, defs) ==
        IF i > Len(lines) THEN defs
        ELSE
          LET line == lines[i]
              inlineMatch == InlineMapMatch(line)
              value == Trim(inlineMatch.inner)
              isMap == ":" \in Range(value)
              TwoParts(entry) == Len(SplitColon(entry)) = 2
              entries == SelectSeq(splitMapEntries(value), TwoParts)
              items == splitListItems(value)
              children ==
                IF isMap
                THEN [j \in DOMAIN entries |->
                        [key |-> Trim(SplitColon(entries[j])[1]),
                         value |-> Trim(SplitColon(entries[j])[2])]]
                ELSE [j \in DOMAIN items |-> [value |-> Trim(items[j])]]
          IN IF inlineMatch.ok
             THEN Loop(i + 1,
                    Append(defs,
                      [name |-> Tail(inlineMatch.name), value |-> Trim(line),
                       kind |-> IF isMap THEN "map" ELSE "list",
                       line |-> i - 1, children |-> children]))
             ELSE Loop(i + 1, defs)
  IN Loop(1, defs0)

\* extractVariables on a content, the index being empty.
extractVariablesIn(text) ==
  LET lines == SplitLines(text)
  IN extractComplexTypesIn(extractScssVariablesIn(<<>>, lines), lines)

\* No content is being parsed.
NoContent == [text |-> <<>>, done |-> FALSE]

(***************************************************************************)
(* Initial state: the scanner as its constructor leaves it.  Without an    *)
(* extension context it has no cache; with one, the index is seeded from   *)
(* what an earlier session stored.                                         *)
(***************************************************************************)
NoContext == [present |-> FALSE, stored |-> <<>>]

\* A first session: a context whose store holds nothing yet.
EmptyStore == [present |-> TRUE, stored |-> <<>>]

\* A later session: the store holds the definition an earlier session
\* extracted from an earlier content (version 0) of a.scss.
SeededStore ==
  [present |-> TRUE, stored |-> Serialize(<<VariableDefinition(FileA, 0)>>)]

\* The workspaces, scan modes, contexts and caching settings the behaviours
\* start from.
Configurations ==
  { [workspace |-> "cycle", parallel |-> FALSE, cache |-> NoContext,
     caching |-> TRUE],
    [workspace |-> "cycle", parallel |-> TRUE,  cache |-> SeededStore,
     caching |-> FALSE],
    [workspace |-> "chain", parallel |-> FALSE, cache |-> NoContext,
     caching |-> TRUE],
    [workspace |-> "fan",   parallel |-> TRUE,  cache |-> EmptyStore,
     caching |-> TRUE],
    [workspace |-> "alias", parallel |-> FALSE, cache |-> SeededStore,
     caching |-> TRUE],
    [workspace |-> "prefix", parallel |-> FALSE, cache |-> EmptyStore,
     caching |-> FALSE],
    [workspace |-> "skipped", parallel |-> FALSE, cache |-> NoContext,
     caching |-> FALSE] }

Init ==
  /\ \E c \in Configurations :
        /\ workspace = c.workspace
        /\ enableParallel = c.parallel
        /\ globalStorageCache = c.cache
        /\ enableFileSystemCaching = c.caching
  /\ disk = [f \in Files |-> [ver |-> 1, present |-> f \in InitialFiles(workspace)]]
  /\ localDefinitions = Deserialize(globalStorageCache.stored)
  /\ importCache = <<>>
  /\ processedFiles = {}
  /\ scanInProgress = FALSE
  /\ debounceTimeout = "null"
  /\ timers = <<>>
  /\ scans = <<>>
  /\ edits = 0
  /\ fullScans = 0
  /\ sinceEvent = [f \in Files |-> DebounceTicks]
  /\ scansInBurst = [f \in Files |-> -1]
  /\ owed = {}
  /\ session = 1
  /\ original = <<>>
  /\ NoDiscovery
  /\ disposed = FALSE
  /\ content = NoContent
  /\ resolution = NoResolution
  /\ held = NotHeld

(***************************************************************************)
(* Steps.                                                                  *)
(***************************************************************************)
\* A finished operation whose caller has not resumed yet.
Returning == \E i \in DOMAIN scans : scans[i].pc = "done"

\* A timer whose time has come.
Due == \E i \in DOMAIN timers : timers[i].rem = 0

\* Callbacks other than these two run only when neither is waiting.
Ready == ~Returning /\ ~Due

\* The operations in flight with t added to them; each operation notes that
\* another one ran while it did (an observation, the program has no such
\* field).
Begin(t) ==
  Append([j \in DOMAIN scans |-> [scans[j] EXCEPT !.overlapped = TRUE]],
         [t EXCEPT !.overlapped = scans # <<>>])

\* The scanner's fields after operation i has run on in world w.
Commit(i, w) ==
  /\ localDefinitions' = w.defs
  /\ importCache' = w.icache
  /\ processedFiles' = w.proc
  /\ scanInProgress' = w.inProgress
  /\ globalStorageCache' = w.cache
  /\ held' = w.held
  /\ scans' = [scans EXCEPT ![i] = w.t]

\* scanWorkspace is called (on activation, by the Refresh command): it sets
\* the flag and awaits the discovery of the files.  The model lets the
\* command run when no earlier full scan is still in flight.
ScanWorkspace ==
  /\ Ready
  /\ edits + fullScans < MaxOps
  /\ \A i \in DOMAIN scans : scans[i].kind # "full"
  /\ fullScans' = fullScans + 1
  /\ scanInProgress' = TRUE
  /\ scans' = Begin(NewScan("full", NoFile, edits, 0))
  /\ UNCHANGED <<instance, held, workspace, enableParallel, disk, localDefinitions, importCache,
                 processedFiles, debounceTimeout, timers, globalStorageCache,
                 edits, sinceEvent, scansInBurst, owed>>

\* findScssFiles has returned: the batch loop starts.
DiscoveryDone(i) ==
  /\ Ready
  /\ scans[i].pc = "discover"
  /\ Commit(i, BatchHead([World(scans[i]) EXCEPT !.t.files = findScssFiles, !.t.i = 0]))
  /\ UNCHANGED <<instance, workspace, enableParallel, disk, debounceTimeout, timers,
                 edits, fullScans, sinceEvent, scansInBurst, owed>>

\* The readFile awaited by chain k of operation i settles.
FileReadDone(i, k) ==
  /\ Ready
  /\ scans[i].pc = "scan"
  /\ k \in DOMAIN scans[i].chains
  /\ scans[i].chains[k] # <<>>
  /\ LET stack == scans[i].chains[k]
         uri == stack[Len(stack)].uri
     IN /\ Commit(i, ContinueScan(ReadSettled(World(scans[i]), k)))
        /\ owed' = IF ExistsSync(uri) THEN owed \ {uri} ELSE owed
  /\ UNCHANGED <<instance, workspace, enableParallel, disk, debounceTimeout, timers,
                 edits, fullScans, sinceEvent, scansInBurst>>

\* The delay after a batch has passed: the loop goes to the next batch.
BatchDelayDone(i) ==
  /\ Ready
  /\ scans[i].pc = "delay"
  /\ Commit(i, BatchHead([World(scans[i]) EXCEPT !.t.i = @ + MaxFilesPerBatch]))
  /\ UNCHANGED <<instance, workspace, enableParallel, disk, debounceTimeout, timers,
                 edits, fullScans, sinceEvent, scansInBurst, owed>>

\* The user cancels the progress notification of full scan i: the token is
\* set.  The operation notes the batch it was scanning then, if any (an
\* observation).
CancelScan(i) ==
  /\ Ready
  /\ scans[i].kind = "full"
  /\ scans[i].pc \in {"discover", "scan", "delay"}
  /\ ~scans[i].cancelRequested
  /\ scans' = [scans EXCEPT ![i].cancelRequested = TRUE,
                            ![i].cancelBatch =
                               IF scans[i].pc = "scan" THEN scans[i].i ELSE -1]
  /\ UNCHANGED <<instance, held, workspace, enableParallel, disk, localDefinitions, importCache,
                 processedFiles, scanInProgress, debounceTimeout, timers,
                 globalStorageCache, edits, fullScans, sinceEvent, scansInBurst,
                 owed>>

\* The caller of a finished operation resumes.  The timer callback that ran
\* an incremental scan ends with this.debounceTimeout = null, whatever timer
\* the field names by then.
ScanReturned(i) ==
  /\ scans[i].pc = "done"
  /\ scans' = RemoveAt(scans, i)
  /\ IF scans[i].kind = "incremental"
     THEN /\ debounceTimeout' = "null"
          /\ timers' = [j \in DOMAIN timers |-> [timers[j] EXCEPT !.cur = FALSE]]
     ELSE UNCHANGED <<debounceTimeout, timers>>
  /\ UNCHANGED <<instance, held, workspace, enableParallel, disk, localDefinitions, importCache,
                 processedFiles, scanInProgress, globalStorageCache, edits,
                 fullScans, sinceEvent, scansInBurst, owed>>

\* A timer callback without the test of scanInProgress.
TimerCallbackUnguarded(w, uri) == StartIncremental(w, uri)

\* The callback of a debounce timer set for uri: when a scan is in progress
\* it returns at once (the operation t it would have run is dropped), else
\* it runs scanSingleFileAndDependents up to its first await.
TimerCallback(w, uri) ==
  IF w.inProgress THEN [w EXCEPT !.t.pc = "dropped"]
  ELSE StartIncremental(w, uri)

\* The earliest due timer runs its callback.
TimerFired ==
  /\ ~Returning
  /\ Due
  /\ LET i == CHOOSE j \in DOMAIN timers :
                /\ timers[j].rem = 0
                /\ \A l \in DOMAIN timers : timers[l].rem = 0 => j <= l
         uri == timers[i].uri
         t == NewScan("incremental", uri, edits, sinceEvent[uri])
         w == TimerCallback(World(t), uri)
     IN /\ timers' = RemoveAt(timers, i)
        /\ debounceTimeout' = IF timers[i].cur THEN "fired" ELSE debounceTimeout
        /\ localDefinitions' = w.defs
        /\ importCache' = w.icache
        /\ processedFiles' = w.proc
        /\ scanInProgress' = w.inProgress
        /\ globalStorageCache' = w.cache
        /\ held' = w.held
        /\ IF w.t.pc = "dropped"
           THEN UNCHANGED <<scans, scansInBurst>>
           ELSE /\ scans' = Begin(w.t)
                /\ scansInBurst' = [scansInBurst EXCEPT
                     ![uri] = IF @ < 0 \/ @ >= 2 THEN @ ELSE @ + 1]
  /\ UNCHANGED <<instance, workspace, enableParallel, disk, edits, fullScans, sinceEvent,
                 owed>>

\* One tick of the clock.
Tick ==
  /\ Ready
  /\ timers # <<>> \/ \E f \in Files : sinceEvent[f] < DebounceTicks
  /\ timers' = [j \in DOMAIN timers |-> [timers[j] EXCEPT !.rem = @ - 1]]
  /\ sinceEvent' = [f \in Files |->
                      IF sinceEvent[f] < DebounceTicks THEN sinceEvent[f] + 1
                      ELSE sinceEvent[f]]
  /\ UNCHANGED <<instance, held, workspace, enableParallel, disk, localDefinitions, importCache,
                 processedFiles, scanInProgress, debounceTimeout, scans,
                 globalStorageCache, edits, fullScans, scansInBurst, owed>>

\* File f is written (changed or created) and the watcher, not yet
\* released, calls onFileChanged.
FileWritten(f) ==
  /\ Ready
  /\ ~disposed
  /\ edits + fullScans < MaxOps
  /\ f \in InitialFiles(workspace)
  /\ edits' = edits + 1
  /\ disk' = [disk EXCEPT ![f] = [ver |-> @.ver + 1, present |-> TRUE]]
  /\ LET h == onFileChanged(Handles, f)
     IN /\ debounceTimeout' = h.dt
        /\ timers' = h.timers
        /\ sinceEvent' = h.since
        /\ scansInBurst' = h.burst
  /\ UNCHANGED <<instance, held, workspace, enableParallel, localDefinitions, importCache,
                 processedFiles, scanInProgress, scans, globalStorageCache,
                 fullScans, owed>>

\* File f is deleted and the watcher, not yet released, calls
\* onFileDeleted.
FileDeleted(f) ==
  /\ Ready
  /\ ~disposed
  /\ edits + fullScans < MaxOps
  /\ disk[f].present
  /\ edits' = edits + 1
  /\ disk' = [disk EXCEPT ![f].present = FALSE]
  /\ LET NotUnder(def) == ~StartsWith(def.fileUri, f)
         defs == Filter(localDefinitions, NotUnder)
         icache == MapDelete(importCache, f)
         importers == findImportingFiles(icache, f)
         h == onFileChangedEach(Handles, importers)
     IN /\ localDefinitions' = defs
        /\ importCache' = icache
        /\ debounceTimeout' = h.dt
        /\ timers' = h.timers
        /\ sinceEvent' = h.since
        /\ scansInBurst' = h.burst
        /\ globalStorageCache' = updateCache(globalStorageCache, defs)
        /\ held' = Reassigned(held, localDefinitions)
        /\ owed' = (owed \ {f}) \cup Range(importers)
  /\ UNCHANGED <<instance, workspace, enableParallel, processedFiles, scanInProgress,
                 scans, fullScans>>

Next ==
  \/ ScanWorkspace
  \/ \E i \in DOMAIN scans : DiscoveryDone(i)
  \/ \E i \in DOMAIN scans : \E k \in 1..MaxParallelScans : FileReadDone(i, k)
  \/ \E i \in DOMAIN scans : BatchDelayDone(i)
  \/ \E i \in DOMAIN scans : CancelScan(i)
  \/ \E i \in DOMAIN scans : ScanReturned(i)
  \/ TimerFired
  \/ Tick
  \/ \E f \in Files : FileWritten(f)
  \/ \E f \in Files : FileDeleted(f)

Spec == Init /\ [][Next]_vars

(***************************************************************************)
(* The scanner with files that cannot be read: a file of the workspace is  *)
(* locked, or removed with no delete event reaching the scanner yet.       *)
(***************************************************************************)
\* File f becomes unreadable; the watcher reports nothing.
FileUnreadable(f) ==
  /\ Ready
  /\ ~disposed
  /\ edits + fullScans < MaxOps
  /\ disk[f].present
  /\ edits' = edits + 1
  /\ disk' = [disk EXCEPT ![f].present = FALSE]
  /\ UNCHANGED <<instance, held, workspace, enableParallel, localDefinitions,
                 importCache, processedFiles, scanInProgress, debounceTimeout,
                 timers, scans, globalStorageCache, fullScans, sinceEvent,
                 scansInBurst, owed>>

UnreadableSpec == Init /\ [][Next \/ \E f \in Files : FileUnreadable(f)]_vars

(***************************************************************************)
(* The scanner's life to its end: the steps above and its disposal.        *)
(***************************************************************************)
\* dispose(): the timer that debounceTimeout names, if any, is cleared and
\* the file watcher is released.  The field keeps its value.
Dispose ==
  /\ Ready
  /\ ~disposed
  /\ disposed' = TRUE
  /\ LET NotCurrent(t) == ~t.cur
     IN timers' = IF debounceTimeout # "null" THEN Filter(timers, NotCurrent)
                  ELSE timers
  /\ UNCHANGED <<held, enableFileSystemCaching, content, resolution, workspace, enableParallel, disk, localDefinitions, importCache,
                 processedFiles, scanInProgress, debounceTimeout, scans,
                 globalStorageCache, edits, fullScans, sinceEvent,
                 scansInBurst, owed, session, original, tree, maxScanDepth,
                 discovery>>

LifecycleSpec == Init /\ [][Next \/ Dispose]_vars

(***************************************************************************)
(* The scanner and a consumer of its index.  getLocalDefinitions returns   *)
(* the array the field localDefinitions holds at the call; the consumer    *)
(* keeps it.  The extractors push onto the field's array in place, the     *)
(* filters assign the field a new array.                                   *)
(***************************************************************************)
\* The elements of the array the consumer holds.
HeldValue == IF held.alias THEN localDefinitions ELSE held.value

\* A definition a consumer makes up.
ConsumerDefinition ==
  [name |-> "x", kind |-> "variable", fileUri |-> NoFile, ver |-> 0,
   comment |-> ""]

\* A consumer calls getLocalDefinitions() and keeps what it returns.
GetLocalDefinitions ==
  /\ Ready
  /\ ~held.taken
  /\ held' = [taken |-> TRUE, alias |-> TRUE, value |-> <<>>]
  /\ UNCHANGED <<instance, workspace, enableParallel, disk, localDefinitions,
                 importCache, processedFiles, scanInProgress, debounceTimeout,
                 timers, scans, globalStorageCache, edits, fullScans,
                 sinceEvent, scansInBurst, owed>>

\* The consumer pushes a definition onto the array it holds: onto the
\* field's array when it is still that one.
ConsumerPush ==
  /\ Ready
  /\ held.taken
  /\ ConsumerDefinition \notin Range(HeldValue)
  /\ IF held.alias
     THEN /\ localDefinitions' = Append(localDefinitions, ConsumerDefinition)
          /\ UNCHANGED held
     ELSE /\ held' = [held EXCEPT !.value = Append(@, ConsumerDefinition)]
          /\ UNCHANGED localDefinitions
  /\ UNCHANGED <<instance, workspace, enableParallel, disk, importCache,
                 processedFiles, scanInProgress, debounceTimeout, timers,
                 scans, globalStorageCache, edits, fullScans, sinceEvent,
                 scansInBurst, owed>>

\* The consumer is followed in the workspace of two files.
ConsumerInit == Init /\ workspace = "cycle"

ConsumerSpec == ConsumerInit /\ [][Next \/ GetLocalDefinitions \/ ConsumerPush]_vars

(***************************************************************************)
(* The cache across sessions: one scanner instance saves its index, the    *)
(* next instance is constructed with the same extension context.           *)
(***************************************************************************)
\* How many definitions the index of the first instance holds at most.
MaxDefs == 2

\* The files of the definitions in that index.
CachePaths ==
  {Path(d, Name(0, st, ".scss")) : d \in {Root, "/C:"}, st \in CacheStems}

\* The definitions in that index: without importedFrom, with importedFrom
\* undefined, and with importedFrom a file.
CacheDefinitions ==
  {VariableDefinition(f, 1) : f \in CachePaths}
    \cup {ImportedDefinition(f, 1, g) :
            f \in CachePaths,
            g \in {Undefined, FileB, Path("/C:", Name(0, "%", ".scss"))}}

\* A scanner just constructed, nothing scheduled, no event seen.
Fresh ==
  /\ workspace = "cycle"
  /\ enableParallel = FALSE
  /\ disk = [f \in Files |-> [ver |-> 1, present |-> f \in InitialFiles(workspace)]]
  /\ importCache = <<>>
  /\ processedFiles = {}
  /\ scanInProgress = FALSE
  /\ debounceTimeout = "null"
  /\ timers = <<>>
  /\ scans = <<>>
  /\ edits = 0
  /\ fullScans = 0
  /\ sinceEvent = [f \in Files |-> DebounceTicks]
  /\ scansInBurst = [f \in Files |-> -1]
  /\ owed = {}
  /\ disposed = FALSE
  /\ held = NotHeld
  /\ enableFileSystemCaching = TRUE

CacheInit ==
  /\ Fresh
  /\ globalStorageCache = EmptyStore
  /\ localDefinitions \in UNION {[1..n -> CacheDefinitions] : n \in 0..MaxDefs}
  /\ session = 1
  /\ original = <<>>
  /\ NoDiscovery
  /\ content = NoContent
  /\ resolution = NoResolution

\* updateCache is called.
SaveCache ==
  /\ session = 1
  /\ globalStorageCache' = updateCache(globalStorageCache, localDefinitions)
  /\ UNCHANGED <<instance, held, workspace, enableParallel, disk, localDefinitions,
                 importCache, processedFiles, scanInProgress, debounceTimeout,
                 timers, scans, edits, fullScans, sinceEvent, scansInBurst,
                 owed>>

\* The instance is disposed of and a new one is constructed with the same
\* context: its index is what the constructor makes of the stored value.
NewSession ==
  /\ session = 1
  /\ session' = 2
  /\ original' = localDefinitions
  /\ localDefinitions' = IF globalStorageCache.present
                         THEN Deserialize(globalStorageCache.stored)
                         ELSE <<>>
  /\ UNCHANGED <<held, enableFileSystemCaching, content, resolution, workspace, enableParallel, disk, importCache, processedFiles,
                 scanInProgress, debounceTimeout, timers, scans,
                 globalStorageCache, edits, fullScans, sinceEvent,
                 scansInBurst, owed, tree, maxScanDepth, discovery,
                 disposed>>

CacheNext == SaveCache \/ NewSession

CacheSpec == CacheInit /\ [][CacheNext]_vars

(***************************************************************************)
(* Discovery on its own: scanWorkspace up to the end of its discovery, on  *)
(* every small directory tree, and on one path as deep as the depth bound. *)
(***************************************************************************)
\* How many directories deep the files of a small tree lie at most.
MaxDirs == 3
\* How many files a small tree holds at most.
MaxTreeFiles == 2

\* The files a small tree may hold: stylesheets of the greatest size that
\* is scanned, of the least that is not, and symbolic links; other files.
TreeEntries ==
  LET dirs == UNION {[1..n -> Range(DirNames)] : n \in 0..MaxDirs}
      kinds == {[ext |-> ".scss", type |-> "File", size |-> MaxFileSize],
                [ext |-> ".scss", type |-> "File", size |-> MaxFileSize + 1],
                [ext |-> ".scss", type |-> "SymbolicLink", size |-> MaxFileSize],
                [ext |-> ".txt", type |-> "File", size |-> MaxFileSize]}
  IN {[dirs |-> d, ext |-> k.ext, type |-> k.type, size |-> k.size] :
        d \in dirs, k \in kinds}

\* One stylesheet at level k, below k - 1 directories.
DeepEntry(k) ==
  [dirs |-> [i \in 1..(k - 1) |-> "src"], ext |-> ".scss", type |-> "File",
   size |-> MaxFileSize]

\* The trees discovery runs on: an accessible workspace folder with a few
\* files or with one deep file; a workspace folder with an excluded name;
\* a workspace folder that cannot be accessed; no workspace folder.
Trees ==
  LET upTo == UNION {{Range(s) : s \in [1..n -> TreeEntries]} :
                       n \in 0..MaxTreeFiles}
      few == {F \in upTo :
                \A e1, e2 \in F :
                   e1.dirs = e2.dirs /\ e1.ext = e2.ext => e1 = e2}
      deep == {{DeepEntry(k)} :
                 k \in {DefaultMaxScanDepth, DefaultMaxScanDepth + 1}}
      one == {{e} : e \in {e \in TreeEntries : Len(e.dirs) <= 1}}
  IN {[rootName |-> "w", root |-> "dir", files |-> F] : F \in few \cup deep}
       \cup {[rootName |-> "build", root |-> "dir", files |-> F] : F \in one}
       \cup {[rootName |-> "w", root |-> r, files |-> F] :
               r \in {"denied", "none"}, F \in one}

DiscoveryInit ==
  /\ Fresh
  /\ globalStorageCache = NoContext
  /\ localDefinitions = <<>>
  /\ session = 1
  /\ original = <<>>
  /\ tree \in Trees
  /\ maxScanDepth \in 0..MaxDirs \cup {DefaultMaxScanDepth}
  /\ discovery = NotRun
  /\ content = NoContent
  /\ resolution = NoResolution

\* scanWorkspace up to the batch loop: without a workspace folder it logs a
\* warning and returns; else findScssFiles runs on the folder at depth 0.
\* Nothing in it throws, so the catch block, the one place that shows an
\* error message, is not entered.
Discover ==
  /\ discovery.state = "idle"
  /\ discovery' = [state |-> "done",
                   files |-> IF tree.root = "none" THEN <<>>
                             ELSE findScssFilesIn(RootNode, 0),
                   errorShown |-> FALSE, calls |-> {}]
  /\ UNCHANGED <<held, enableFileSystemCaching, content, resolution, workspace, enableParallel, disk, localDefinitions, importCache,
                 processedFiles, scanInProgress, debounceTimeout, timers, scans,
                 globalStorageCache, edits, fullScans, sinceEvent, scansInBurst,
                 owed, session, original, tree, maxScanDepth, disposed>>

\* The user raises scssVariables.maxScanDepth by one; the next scan reads it.
RaiseMaxScanDepth ==
  /\ discovery.state = "done"
  /\ maxScanDepth <= MaxDirs \/ maxScanDepth = DefaultMaxScanDepth
  /\ maxScanDepth' = maxScanDepth + 1
  /\ discovery' = NotRun
  /\ UNCHANGED <<held, enableFileSystemCaching, content, resolution, workspace, enableParallel, disk, localDefinitions, importCache,
                 processedFiles, scanInProgress, debounceTimeout, timers, scans,
                 globalStorageCache, edits, fullScans, sinceEvent, scansInBurst,
                 owed, session, original, tree, disposed>>

DiscoveryNext == Discover \/ RaiseMaxScanDepth

DiscoverySpec == DiscoveryInit /\ [][DiscoveryNext]_vars

(***************************************************************************)
(* Discovery call by call.  A findScssFiles call in flight is its node and *)
(* the await it is suspended on: "stat", "readdir", or "wait" for the      *)
(* calls it made on a group of entries (Promise.all in parallel mode, one  *)
(* entry at a time in sequential mode); rest holds the entries of the      *)
(* directory not yet handed to a call.  The calls in flight are the field  *)
(* calls of discovery.                                                     *)
(***************************************************************************)
\* How many files a tree of the walk holds at most.
MaxWalkFiles == 3

\* The node whose readDirectory listed node n.
ParentNode(n) ==
  IF n.ext # "" THEN [dirs |-> n.dirs, ext |-> ""]
  ELSE [dirs |-> SubSeq(n.dirs, 1, Len(n.dirs) - 1), ext |-> ""]

\* The call on directory n goes on when none of the calls it awaits is left
\* in C: it returns when no entry is left (and its caller goes on), else it
\* calls findScssFiles on the next group of entries; a call deeper than the
\* depth bound returns before any await.
RECURSIVE ContinueWalk(_, _)
ContinueWalk(C, n) ==
  LET c == CHOOSE c \in C : c.node = n
      awaited == {d \in C : d.node # RootNode /\ ParentNode(d.node) = n}
      returned == C \ {c}
  IN IF awaited # {} THEN C
     ELSE IF c.rest = <<>>
     THEN IF n = RootNode THEN returned
          ELSE ContinueWalk(returned, ParentNode(n))
     ELSE LET chunk == Take(c.rest, ChunkSize)
              called == IF TooDeep(Len(n.dirs) + 1) THEN {}
                        ELSE {[node |-> chunk[j], stage |-> "stat", rest |-> <<>>] :
                                j \in DOMAIN chunk}
          IN ContinueWalk(returned \cup {[c EXCEPT !.rest = Drop(@, ChunkSize)]}
                            \cup called, n)

\* The trees of the walk: up to MaxWalkFiles files of scannable size, at
\* most two directories deep.
WalkTrees ==
  LET dirs == UNION {[1..n -> {"src", "tmp"}] : n \in 0..2}
      entries == {[dirs |-> d, ext |-> x, type |-> "File", size |-> MaxFileSize] :
                    d \in dirs, x \in Range(FileExts)}
  IN {[rootName |-> "w", root |-> "dir", files |-> Range(s)] :
        s \in UNION {[1..n -> entries] : n \in 0..MaxWalkFiles}}

WalkInit ==
  /\ workspace = "cycle"
  /\ enableParallel \in BOOLEAN
  /\ disk = [f \in Files |-> [ver |-> 1, present |-> f \in InitialFiles(workspace)]]
  /\ localDefinitions = <<>>
  /\ importCache = <<>>
  /\ processedFiles = {}
  /\ scanInProgress = FALSE
  /\ debounceTimeout = "null"
  /\ timers = <<>>
  /\ scans = <<>>
  /\ globalStorageCache = NoContext
  /\ edits = 0
  /\ fullScans = 0
  /\ sinceEvent = [f \in Files |-> DebounceTicks]
  /\ scansInBurst = [f \in Files |-> -1]
  /\ owed = {}
  /\ session = 1
  /\ original = <<>>
  /\ tree \in WalkTrees
  /\ maxScanDepth \in {1, DefaultMaxScanDepth}
  /\ discovery = NotRun
  /\ disposed = FALSE
  /\ enableFileSystemCaching = TRUE
  /\ content = NoContent
  /\ resolution = NoResolution
  /\ held = NotHeld

\* The calls in flight are C after a step of the walk: with none left,
\* findScssFiles on the workspace folder has returned its files.
Walked(C) ==
  /\ discovery' = IF C = {}
                  THEN [state |-> "done", files |-> findScssFilesIn(RootNode, 0),
                        errorShown |-> FALSE, calls |-> {}]
                  ELSE [discovery EXCEPT !.state = "walking", !.calls = C]
  /\ UNCHANGED <<held, enableFileSystemCaching, content, resolution, workspace, enableParallel,
                 disk, localDefinitions, importCache, processedFiles,
                 scanInProgress, debounceTimeout, timers, scans,
                 globalStorageCache, edits, fullScans, sinceEvent, scansInBurst,
                 owed, session, original, tree, maxScanDepth, disposed>>

\* scanWorkspace calls findScssFiles on the workspace folder, which awaits
\* stat.
StartWalk ==
  /\ discovery.state = "idle"
  /\ Walked({[node |-> RootNode, stage |-> "stat", rest |-> <<>>]})

\* The stat awaited by call c settles: a directory that is not excluded
\* awaits readDirectory, a file is pushed or not and the call returns.
StatSettled(c) ==
  /\ discovery.state = "walking"
  /\ c \in discovery.calls
  /\ c.stage = "stat"
  /\ LET stats == Stat(c.node)
         returned == discovery.calls \ {c}
     IN IF /\ stats.type = "Directory"
           /\ ~IsExcludedFolder(c.node)
           /\ ~MatchesExcludePattern(c.node)
        THEN Walked(returned \cup {[c EXCEPT !.stage = "readdir"]})
        ELSE IF c.node = RootNode THEN Walked(returned)
        ELSE Walked(ContinueWalk(returned, ParentNode(c.node)))

\* The readDirectory awaited by call c settles: the call goes through the
\* entries group by group.
ReadDirectorySettled(c) ==
  /\ discovery.state = "walking"
  /\ c \in discovery.calls
  /\ c.stage = "readdir"
  /\ Walked(ContinueWalk((discovery.calls \ {c})
                           \cup {[c EXCEPT !.stage = "wait",
                                           !.rest = ReadDirectory(c.node)]},
                         c.node))

WalkNext ==
  \/ StartWalk
  \/ \E c \in discovery.calls : StatSettled(c)
  \/ \E c \in discovery.calls : ReadDirectorySettled(c)

WalkSpec == WalkInit /\ [][WalkNext]_vars

(***************************************************************************)
(* The import resolver on its own: one import string of a.scss, followed   *)
(* with every set of the files it can name present in a.scss's directory.  *)
(***************************************************************************)
\* The import strings: with no extension, with each stylesheet extension,
\* with another extension.
ImportStrings == {Name(0, "c", x) : x \in {"", ".scss", ".css", ".txt"}}

\* The files an import string can name: plain and partial, as written and
\* with the default extension appended.
ImportCandidates ==
  {Path(Root, Name(us, "c", x)) :
     us \in {0, 1}, x \in {"", ".scss", ".css", ".txt", ".txt.scss"}}

ResolveInit ==
  /\ workspace = "cycle"
  /\ enableParallel = FALSE
  /\ \E present \in SUBSET ImportCandidates :
        disk = [f \in ImportCandidates \cup {FileA} |->
                  [ver |-> 1, present |-> f \in present \cup {FileA}]]
  /\ localDefinitions = <<>>
  /\ importCache = <<>>
  /\ processedFiles = {}
  /\ scanInProgress = FALSE
  /\ debounceTimeout = "null"
  /\ timers = <<>>
  /\ scans = <<>>
  /\ globalStorageCache = NoContext
  /\ edits = 0
  /\ fullScans = 0
  /\ sinceEvent = [f \in Files |-> DebounceTicks]
  /\ scansInBurst = [f \in Files |-> -1]
  /\ owed = {}
  /\ session = 1
  /\ original = <<>>
  /\ NoDiscovery
  /\ disposed = FALSE
  /\ enableFileSystemCaching = TRUE
  /\ content = NoContent
  /\ resolution \in {[imp |-> i, to |-> NoFile, done |-> FALSE] : i \in ImportStrings}
  /\ held = NotHeld

\* scanFile(a.scss) reaches the import in its loop and resolves it.
FollowImport ==
  /\ ~resolution.done
  /\ resolution.imp \in ImportStrings
  /\ resolution' = [resolution EXCEPT !.done = TRUE,
                                      !.to = ResolveImport(FileA, resolution.imp)]
  /\ UNCHANGED <<held, enableFileSystemCaching, content, workspace, enableParallel,
                 disk, localDefinitions, importCache, processedFiles,
                 scanInProgress, debounceTimeout, timers, scans,
                 globalStorageCache, edits, fullScans, sinceEvent, scansInBurst,
                 owed, session, original, tree, maxScanDepth, discovery, disposed>>

ResolveSpec == ResolveInit /\ [][FollowImport]_vars

(***************************************************************************)
(* The batch loop of scanWorkspace with the settings as the configuration  *)
(* gives them: any number.  The scan is the record of its locals: n files  *)
(* discovered, the index i of the loop, batchSize, maxParallel, delay, and *)
(* left, the files of the current batch not yet scanned.  An index below   *)
(* -n - 1 slices as -n - 1 does and is kept there.                         *)
(***************************************************************************)
\* How many files the discovery returned at most.
MaxLoopFiles == 3
\* maxFilesPerBatch and maxParallelScans range from SettingsBelowZero below
\* zero to GreatestSetting.
SettingsBelowZero == 1
GreatestSetting == 2

\* files.slice(start, end).length for an array of n elements
SliceLength(n, start, end) ==
  LET Clamp(k) == IF k < 0 THEN (IF n + k < 0 THEN 0 ELSE n + k)
                  ELSE IF k > n THEN n ELSE k
  IN IF Clamp(end) > Clamp(start) THEN Clamp(end) - Clamp(start) ELSE 0

BatchLoopInit ==
  /\ workspace = "cycle"
  /\ enableParallel \in BOOLEAN
  /\ disk = [f \in Files |-> [ver |-> 1, present |-> f \in InitialFiles(workspace)]]
  /\ localDefinitions = <<>>
  /\ importCache = <<>>
  /\ processedFiles = {}
  /\ scanInProgress = TRUE
  /\ debounceTimeout = "null"
  /\ timers = <<>>
  /\ \E n \in 0..MaxLoopFiles : \E b, m \in (-SettingsBelowZero)..GreatestSetting :
       \E d \in {0, BatchScanDelay} :
          scans = << [kind |-> "full", pc |-> "head", n |-> n, i |-> 0,
                      batchSize |-> b, maxParallel |-> m, delay |-> d,
                      left |-> 0] >>
  /\ globalStorageCache = NoContext
  /\ edits = 0
  /\ fullScans = 1
  /\ sinceEvent = [f \in Files |-> DebounceTicks]
  /\ scansInBurst = [f \in Files |-> -1]
  /\ owed = {}
  /\ session = 1
  /\ original = <<>>
  /\ NoDiscovery
  /\ disposed = FALSE
  /\ enableFileSystemCaching = TRUE
  /\ content = NoContent
  /\ resolution = NoResolution
  /\ held = NotHeld

\* The scan's record is t and the flag is inProgress after a step of the
\* loop.
Looped(t, inProgress) ==
  /\ scans' = <<t>>
  /\ scanInProgress' = inProgress
  /\ UNCHANGED <<instance, held, workspace, enableParallel, disk, localDefinitions,
                 importCache, processedFiles, debounceTimeout, timers,
                 globalStorageCache, edits, fullScans, sinceEvent, scansInBurst,
                 owed>>

\* The end of an iteration: the delay is awaited when it is positive, then
\* i += batchSize.
AfterBatch(t) ==
  IF t.delay > 0 THEN [t EXCEPT !.pc = "delay"]
  ELSE [t EXCEPT !.pc = "head",
                 !.i = IF @ + t.batchSize < -(MaxLoopFiles + 1)
                       THEN -(MaxLoopFiles + 1) ELSE @ + t.batchSize]

\* The loop condition i < files.length: when it fails withProgress returns
\* and the finally block clears the flag; else the batch is sliced.
LoopHead ==
  /\ scans # <<>> /\ scans[1].pc = "head"
  /\ LET t == scans[1]
     IN IF t.i >= t.n THEN Looped([t EXCEPT !.pc = "done"], FALSE)
        ELSE Looped([t EXCEPT !.pc = "report",
                              !.left = SliceLength(t.n, t.i, t.i + t.batchSize)],
                    TRUE)

\* progress.report, then the files of the batch: in parallel mode
\* chunkArray(batch, maxParallel), whose loop never ends on a batch that is
\* not empty when maxParallel is not positive (the process runs out of
\* memory and is aborted, or an error is thrown to scanWorkspace's catch
\* and finally blocks).
ReportProgress ==
  /\ scans # <<>> /\ scans[1].pc = "report"
  /\ LET t == scans[1]
     IN IF enableParallel /\ t.left > 0 /\ t.maxParallel <= 0
        THEN \/ Looped([t EXCEPT !.pc = "aborted"], TRUE)
             \/ Looped([t EXCEPT !.pc = "done"], FALSE)
        ELSE IF t.left > 0 THEN Looped([t EXCEPT !.pc = "scan"], TRUE)
        ELSE Looped(AfterBatch(t), TRUE)

\* The scanFile calls awaited have returned: one chunk of the batch in
\* parallel mode, one file in sequential mode.
ScanAwaited ==
  /\ scans # <<>> /\ scans[1].pc = "scan"
  /\ LET t == scans[1]
         size == IF enableParallel THEN t.maxParallel ELSE 1
         left == IF size < t.left THEN t.left - size ELSE 0
     IN IF left > 0 THEN Looped([t EXCEPT !.left = left], TRUE)
        ELSE Looped(AfterBatch([t EXCEPT !.left = 0]), TRUE)

\* The delay between batches has passed.
DelayPassed ==
  /\ scans # <<>> /\ scans[1].pc = "delay"
  /\ Looped(AfterBatch([scans[1] EXCEPT !.delay = 0]), TRUE)

BatchLoopNext == LoopHead \/ ReportProgress \/ ScanAwaited \/ DelayPassed

\* The event loop runs every continuation that is ready.
BatchLoopSpec ==
  BatchLoopInit /\ [][BatchLoopNext]_vars /\ WF_vars(BatchLoopNext)

(***************************************************************************)
(* The extractors applied to contents of up to MaxLines lines.             *)
(***************************************************************************)
\* The contents: every sequence of one to MaxLines lines.
Contents ==
  UNION {{Join([i \in 1..n |-> Line(names[i])]) : names \in [1..n -> LineNames]} :
           n \in 1..MaxLines}

ParserInit ==
  /\ Fresh
  /\ globalStorageCache = NoContext
  /\ localDefinitions = <<>>
  /\ session = 1
  /\ original = <<>>
  /\ NoDiscovery
  /\ content \in {[text |-> t, done |-> FALSE] : t \in Contents}
  /\ resolution = NoResolution

\* scanFile has read the content and calls extractVariables on it.
ExtractVariables ==
  /\ ~content.done
  /\ content' = [content EXCEPT !.done = TRUE]
  /\ localDefinitions' = extractVariablesIn(content.text)
  /\ UNCHANGED <<held, enableFileSystemCaching, resolution, workspace, enableParallel, disk,
                 importCache, processedFiles, scanInProgress, debounceTimeout,
                 timers, scans, globalStorageCache, edits, fullScans,
                 sinceEvent, scansInBurst, owed, session, original, tree,
                 maxScanDepth, discovery, disposed>>

ParserSpec == ParserInit /\ [][ExtractVariables]_vars

(***************************************************************************)
(* Notions the properties use.                                             *)
(***************************************************************************)
\* No timer is pending and no scan operation is in flight.
Quiescent == timers = <<>> /\ scans = <<>>

\* The operations between their first statement and their finally block.
InFlight == {i \in DOMAIN scans : scans[i].pc # "done"}

\* Operation i has just run its finally block, it was not cancelled, and the
\* disk has not changed since it started.
Finished(i, kind) ==
  /\ scans[i].kind = kind
  /\ scans[i].pc = "done"
  /\ ~scans[i].cancelled
  /\ scans[i].epoch = edits

\* No other scan operation was in flight while operation i was.
Alone(i) == ~scans[i].overlapped

\* The two sequences hold the same elements the same number of times.
SameBag(s1, s2) ==
  \A x \in Range(s1) \cup Range(s2) : Count(s1, x) = Count(s2, x)

\* The definitions in the index whose source file is f.
DefinitionsOf(f) == LET From(def) == def.fileUri = f IN Filter(localDefinitions, From)

\* Every definition of f in the index was extracted from f's content as it
\* is on disk now (none at all when f does not exist).
Current(f) ==
  \A d \in Range(DefinitionsOf(f)) : ExistsSync(f) /\ d.ver = disk[f].ver

\* scanWorkspace run from the end of the discovery to its end on the scanner
\* fields of w, the reads settling in the order in which they were started.
RECURSIVE InSubmissionOrder(_)
InSubmissionOrder(w) ==
  IF w.t.pc = "done" THEN w
  ELSE IF w.t.pc = "delay"
  THEN InSubmissionOrder(BatchHead([w EXCEPT !.t.i = @ + MaxFilesPerBatch]))
  ELSE LET k == CHOOSE k \in DOMAIN w.t.chains :
                   /\ w.t.chains[k] # <<>>
                   /\ \A j \in 1..(k - 1) : w.t.chains[j] = <<>>
       IN InSubmissionOrder(ContinueScan(ReadSettled(w, k)))

\* The index after a full scan of the workspace as it is on disk, started
\* on an empty index by a scanner that has scanned nothing yet, the reads
\* settling in the order in which they were started.
ScannedInSubmissionOrder ==
  LET t == [NewScan("full", NoFile, edits, 0) EXCEPT !.files = findScssFiles]
      w == [World(t) EXCEPT !.defs = <<>>, !.icache = <<>>, !.proc = {},
                            !.inProgress = TRUE]
  IN InSubmissionOrder(BatchHead(w)).defs

\* scanSingleFileAndDependents(uri) run from start to end on the scanner
\* fields of w, every read settling at once.
RECURSIVE RunToEnd(_)
RunToEnd(w) ==
  IF w.t.pc = "done" THEN w ELSE RunToEnd(ContinueScan(ReadSettled(w, 1)))

Rescan(uri) ==
  RunToEnd(StartIncremental(World(NewScan("incremental", uri, edits, 0)), uri))

\* File a has, on disk, an import statement that the resolver follows to b.
ImportsOnDisk(a, b) ==
  /\ ExistsSync(a)
  /\ \E j \in DOMAIN extractImports(a, disk[a].ver) :
        ResolveImport(a, extractImports(a, disk[a].ver)[j]) = b

\* File a has a recorded import (an import-cache entry) that the resolver
\* follows to b.
ImportRecorded(a, b) ==
  \E e \in Range(importCache) :
     /\ e.key = a
     /\ \E j \in DOMAIN e.value : ResolveImport(a, e.value[j]) = b

\* The files from which a chain of recorded imports, each naming the next
\* file by its full name, leads to one of the files in S.
RECURSIVE TransitiveImporters(_)
TransitiveImporters(S) ==
  LET more == S \cup UNION {Range(findImportingFiles(importCache, f)) : f \in S}
  IN IF more = S THEN S ELSE TransitiveImporters(more)

(***************************************************************************)
(* The claims.                                                             *)
(***************************************************************************)
\* C1: a full scan and an incremental scan are mutually exclusive: at most
\* one scan operation is between setting scanInProgress and its finally
\* block at any time.
C1_MutualExclusion == Cardinality(InFlight) <= 1

\* C2: idempotent upsert: when the rescan of f (scanSingleFileAndDependents)
\* has just run with no content changing, running it once more leaves the
\* multiset of definitions in the index as the first run left it.
C2_IdempotentRescan ==
  \A i \in DOMAIN scans :
     Finished(i, "incremental") /\ Alone(i)
       => SameBag(Rescan(scans[i].uri).defs, localDefinitions)

\* C3: no stale definitions: when the rescan of a changed file f has
\* completed, the index holds no definition of f other than those of f's
\* current content.
C3_NoStaleDefinitions ==
  \A i \in DOMAIN scans : Finished(i, "incremental") => Current(scans[i].uri)

\* C4: cycle safety: when a full scan over two files that import each other
\* has completed, no other scan having run meanwhile, every definition of
\* either file is in the index exactly once.
C4_CycleSafety ==
  \A i \in DOMAIN scans : \A a, b \in Range(scans[i].files) :
     /\ Finished(i, "full") /\ Alone(i)
     /\ a # b /\ ImportsOnDisk(a, b) /\ ImportsOnDisk(b, a)
     => Count(localDefinitions, VariableDefinition(a, disk[a].ver)) = 1

\* C5: a full scan rebuilds the index: when scanWorkspace has completed
\* without cancellation, the index holds exactly the definitions extracted
\* during that scan, each once.
C5_FullScanRebuilds ==
  \A i \in DOMAIN scans :
     Finished(i, "full") => SameBag(localDefinitions, scans[i].extracted)

\* C6: the processed-file set is reset at the start of every scan: with no
\* file event at all, every scanWorkspace on the same scanner (the Refresh
\* command) reads every file it discovered.
C6_ProcessedFilesReset ==
  \A i \in DOMAIN scans :
     Finished(i, "full") /\ edits = 0
       => Range(scans[i].files) \subseteq scans[i].visited

\* C7: dependent rescan: when the incremental scan of a changed file b has
\* completed, every file a with a recorded import that resolves to b has
\* been rescanned, and the definitions of both are those of their current
\* content.
C7_DependentRescan ==
  \A i \in DOMAIN scans : \A a \in Files :
     Finished(i, "incremental") /\ Alone(i)
       /\ ImportRecorded(a, scans[i].uri)
     => a \in scans[i].visited /\ Current(a) /\ Current(scans[i].uri)

\* C8: debounce coalescing: with change events for one file only, a burst
\* of events each less than the debounce interval after the previous one
\* starts no second scan of the file (the claim: exactly one), and no scan
\* of it starts before one debounce interval has passed since the last
\* event.
C8_DebounceCoalescing ==
  \A f \in Files :
     (\A g \in Files \ {f} : scansInBurst[g] = -1)
     => /\ \A i \in DOMAIN scans :
             scans[i].kind = "incremental" => scans[i].startAge >= DebounceTicks
        /\ scansInBurst[f] <= 1

\* C9: when the incremental scan of a changed file f has completed, the
\* change of f being the only file event and no other scan having run
\* meanwhile, every file that transitively imports f (by recorded imports)
\* has been rescanned.
C9_TransitiveRescan ==
  \A i \in DOMAIN scans :
     Finished(i, "incremental") /\ Alone(i) /\ edits = 1
       => TransitiveImporters({scans[i].uri}) \subseteq scans[i].visited

\* C10: after a file is deleted, each file with a recorded import of it is
\* rescanned: when the deletion is the only file event, then once the timers
\* have run, the scans have ended and the last timer's scan ran to its end
\* (the handle is null again), no such file is still waiting for its rescan.
C10_DeleteRescansImporters ==
  Quiescent /\ debounceTimeout = "null" /\ edits = 1 => owed = {}

\* C11: the delete-event handler removes the definitions and the import
\* entry of the deleted file and nothing else: the definitions and import
\* entries of every other file are as they were.
C11_RemoveFileFrame ==
  [][\A f \in Files :
       FileDeleted(f) =>
         /\ DefinitionsOf(f)' = <<>>
         /\ ~MapHas(importCache', f)
         /\ \A g \in Files \ {f} : DefinitionsOf(g)' = DefinitionsOf(g)
         /\ \A e \in Range(importCache) :
               e.key # f => e \in Range(importCache')]_vars

\* C12: findImportingFiles(f) returns exactly the files with an import edge
\* to f: file a is returned if and only if one of a's recorded import
\* strings is resolved by the import resolver (exact path, extension
\* inference or partial-file naming) to f.
C12_FindDependentsExact ==
  \A f \in Files : \A a \in Files :
     ExistsSync(f) /\ ExistsSync(a)
     => (a \in Range(findImportingFiles(importCache, f))
           <=> ImportRecorded(a, f))

\* The persisted entry is the serialisation of the index (with a context).
WrittenThrough ==
  globalStorageCache.present
    => globalStorageCache.stored = Serialize(localDefinitions)

\* C13: the persisted cache is write-through: when a full scan has
\* completed, when an incremental scan has settled and after every file
\* deletion, the persisted entry equals the serialisation of the index.
C13_CacheWriteThrough ==
  /\ [](\A i \in DOMAIN scans :
          scans[i].pc = "done" /\ ~scans[i].cancelled => WrittenThrough)
  /\ [][(\E f \in Files : FileDeleted(f)) => WrittenThrough']_vars

\* The second instance was constructed after the first had saved its index.
Reloaded == session = 2 /\ globalStorageCache.stored = Serialize(original)

\* The fields that hold no uri are equal.
SameValues(d1, d2) ==
  \A k \in {"name", "kind", "ver", "comment"} : d1[k] = d2[k]

\* Both undefined, or uris of the same file system path.
SameFile(u1, u2) ==
  IF u1 = Undefined \/ u2 = Undefined THEN u1 = u2
  ELSE FsPath(u1) = FsPath(u2)

C15_CancelPerBatch ==
  \A i \in DOMAIN scans :
     LET t == scans[i] IN
     t.kind = "full" /\ t.pc = "done" /\ t.cancelBatch >= 0
     => /\ t.submitted = Take(t.files, t.cancelBatch + MaxFilesPerBatch)
        /\ \A f \in Range(t.submitted) :
              f \in t.visited /\ ExistsSync(f) /\ t.epoch = edits
              => \E d \in Range(t.extracted) : d.fileUri = f
        /\ t.cancelled <=> t.cancelBatch + MaxFilesPerBatch < Len(t.files)
        /\ ~scanInProgress
        /\ Alone(i) /\ t.epoch = edits
           => Range(t.extracted) \subseteq Range(localDefinitions)

\* A full scan of three files in batches of two, cancelled while its first
\* batch was scanned, has ended without scanning its second batch.
C15_Witness ==
  \E i \in DOMAIN scans :
     /\ scans[i].kind = "full" /\ scans[i].pc = "done"
     /\ scans[i].cancelBatch = 0 /\ scans[i].cancelled
     /\ Alone(i) /\ scans[i].epoch = edits
     /\ Len(scans[i].files) > Len(scans[i].submitted)
     /\ scans[i].extracted # <<>>

\* C16: exclude patterns (P8): a file with an excluded directory name among
\* its ancestor directories, the workspace folder included, is never in the
\* output of discovery, whatever its extension, size or depth.
C16_ExcludedNeverFound ==
  discovery.state = "done"
  => \A f \in Range(discovery.files) :
        /\ tree.rootName \notin ExcludedFolders
        /\ \A j \in DOMAIN f.dirs : f.dirs[j] \notin ExcludedFolders

\* Discovery has found a stylesheet and has left out one below an excluded
\* directory that is itself below another directory.
C16_Witness ==
  /\ discovery.state = "done"
  /\ discovery.files # <<>>
  /\ \E e \in tree.files :
        /\ e.dirs = <<"src", "dist">> /\ e.ext = ".scss" /\ e.type = "File"
        /\ e.size <= MaxFileSize /\ maxScanDepth >= 3

\* File e passes every filter of discovery but the depth bound.
PassesOtherFilters(e) ==
  /\ tree.root = "dir"
  /\ e.type = "File" /\ e.size <= MaxFileSize /\ EndsWithStylesheetExt(e)
  /\ \A n \in 0..Len(e.dirs) :
        LET dir == [dirs |-> SubSeq(e.dirs, 1, n), ext |-> ""]
        IN ~IsExcludedFolder(dir) /\ ~MatchesExcludePattern(dir)

\* C17: depth bound: a file directly in the workspace folder being at level
\* 1, discovery returns a stylesheet at level k that passes the other
\* filters if and only if k <= maxScanDepth.
C17_DepthBound ==
  discovery.state = "done"
  => \A e \in tree.files :
        PassesOtherFilters(e)
        => ([dirs |-> e.dirs, ext |-> e.ext] \in Range(discovery.files)
              <=> Len(e.dirs) + 1 <= maxScanDepth)

\* Scenario C: the stylesheet at level 31 was not found at the default
\* depth and is found with maxScanDepth raised to 31.
C17_Witness ==
  /\ discovery.state = "done"
  /\ maxScanDepth = DefaultMaxScanDepth + 1
  /\ tree.files = {DeepEntry(DefaultMaxScanDepth + 1)}
  /\ Len(discovery.files) = 1

C19_FailuresContained ==
  \A i \in DOMAIN scans :
     LET t == scans[i]
         Added(f) == LET Of(d) == d = VariableDefinition(f, d.ver)
                     IN Len(SelectSeq(t.extracted, Of))
     IN t.pc = "done"
        => /\ \A f \in Files : Added(f) = Count(t.okReads, f)
           /\ t.visited = Range(t.okReads) \cup t.failed
           /\ t.kind = "full" /\ ~t.cancelled => t.submitted = t.files
           /\ Range(t.submitted) \subseteq t.visited \cup t.skipped

\* A full scan has ended after the read of an imported file failed: the
\* importer and a file scanned after it have their definitions.
C19_Witness ==
  \E i \in DOMAIN scans :
     /\ scans[i].kind = "full" /\ scans[i].pc = "done" /\ ~scans[i].cancelled
     /\ scans[i].failed # {}
     /\ \E a \in Range(scans[i].okReads) :
           \E b \in scans[i].failed \ Range(scans[i].okReads) :
              \E j \in DOMAIN extractImports(a, 1) :
                 PathResolve(Dirname(a), extractImports(a, 1)[j]) = b
     /\ Len(scans[i].extracted) >= 2

\* C20: per-file atomicity: at every suspension point of every scan the
\* index holds the definitions of a read of a file all together: the
\* definition a read pushes last (an interpolated name) is never there
\* without the one the same read pushed first (the file's variable), once
\* for each time it is there.
C20_PerFileAtomicity ==
  \A d \in Range(localDefinitions) :
     d.comment = "Used in string interpolation"
     => Count(localDefinitions, d)
          <= Count(localDefinitions, VariableDefinition(d.fileUri, d.ver))

\* While a scan awaits a read, the index holds both definitions of a read
\* of b.scss: its variable and its interpolated name.
C20_Witness ==
  /\ \E i \in DOMAIN scans :
        /\ scans[i].pc = "scan"
        /\ \E k \in DOMAIN scans[i].chains : scans[i].chains[k] # <<>>
  /\ \E v \in 1..MaxOps :
        /\ Count(localDefinitions, VariableDefinition(FileB, v)) = 1
        /\ Count(localDefinitions, InterpolatedDefinition(FileB, v, "c")) = 1

\* C21: disposal cancels the pending rescan: once dispose() has returned,
\* no step starts an incremental scan (no timer callback of the scanner
\* calls scanSingleFileAndDependents any more).
C21_DisposalStopsRescans ==
  [][disposed =>
       ~(/\ Len(scans') > Len(scans)
         /\ scans'[Len(scans')].kind = "incremental")]_vars

\* C22: the index is exposed as a read snapshot only: the value a consumer
\* got from getLocalDefinitions stays as it was returned whatever the
\* scanner does to the index later, and the consumer's writing to that
\* value leaves the index as it is.
C22_SnapshotOnly ==
  /\ [][held.taken /\ ~ConsumerPush => HeldValue' = HeldValue]_vars
  /\ [][ConsumerPush => localDefinitions' = localDefinitions]_vars

\* C23: excluded folders and oversized files are skipped by scanning,
\* however the scanner reaches a file (discovery, an import, a file-change
\* event): the index never holds a definition of a file larger than
\* maxFileSize or of a file under a directory named in excludedFolders.
C23_SkippedNeverIndexed ==
  \A d \in Range(localDefinitions) :
     /\ FileSize(workspace, d.fileUri) <= MaxFileSize
     /\ \A j \in DOMAIN DirsOf(d.fileUri) :
           DirsOf(d.fileUri)[j] \notin ExcludedFolders

\* C24: the file-system-caching option controls the persisted cache: with
\* scssVariables.enableFileSystemCaching false, a scanner that has done
\* nothing yet has an empty index (none seeded from the cache), and no step
\* (scan, deletion) changes what the cache holds.
C24_CachingOptionObeyed ==
  /\ [](~enableFileSystemCaching /\ edits = 0 /\ fullScans = 0
          => localDefinitions = <<>>)
  /\ [][~enableFileSystemCaching
          => globalStorageCache' = globalStorageCache]_vars

\* The lines of the content handed to extractVariables.
ContentLines == SplitLines(content.text)

\* The right-hand side of the single-line definition on a line: the text
\* between the colon and the terminator.
RightHandSide(line) ==
  SubSeq(line, VarHead(line).rest, ScssVariableMatch(line).end - 1)

\* C25: reference extraction (Scenario A): the references of every
\* single-line variable definition are the sigil-prefixed identifiers and
\* var(--name) names of its right-hand side; the two lines "$a: #f;" and
\* "$b: $a;" yield two definitions, the first without references, the
\* second with the one reference a.
C25_ReferenceExtraction ==
  content.done =>
    /\ \A d \in Range(localDefinitions) :
          d.kind = "variable" /\ ";" \in Range(ContentLines[d.line + 1])
            => d.references =
                 extractVariableReferences(RightHandSide(ContentLines[d.line + 1]))
    /\ content.text = Join(<<Line("color-a"), Line("color-b")>>)
          => /\ Len(localDefinitions) = 2
             /\ localDefinitions[1].references = <<>>
             /\ localDefinitions[2].references = << <<"a">> >>

\* C26: depth-bounded comma split (P4): every map or list definition of a
\* collection written on one line has as many children as the collection
\* has non-empty entries between commas at parenthesis depth zero; the line
\* "$m: (s: r(0,0), l: 1);" yields a map definition with 2 children.
C26_DepthZeroCommaSplit ==
  content.done =>
    /\ \A d \in Range(localDefinitions) :
          d.kind \in {"map", "list"} =>
            LET inner == Trim(InlineMapMatch(ContentLines[d.line + 1]).inner)
                NonEmpty(e) == e # <<>>
            IN Len(d.children) = Len(SelectSeq(splitMapEntries(inner), NonEmpty))
    /\ content.text = Line("shadows")
          => \E d \in Range(localDefinitions) :
                d.kind = "map" /\ Len(d.children) = 2

\* The sequence sub occurs in cs.
Contains(cs, sub) ==
  \E i \in 1..(Len(cs) - Len(sub) + 1) : SubSeq(cs, i, i + Len(sub) - 1) = sub

\* C27: multi-line value (P5): when a variable's defining line has no
\* terminator and a later line has one, one variable definition is emitted
\* at the defining line, its value holds the text of every line accumulated
\* (line comments skipped) up to the terminator of the first line that has
\* one, and the single-line definitions after that line are emitted too.
C27_MultiLineValue ==
  content.done =>
    \A i \in DOMAIN ContentLines :
      LET lines == ContentLines
          Starts(h) == VarHead(lines[h]).ok /\ ";" \notin Range(lines[h])
          IsComment(k) == SubSeq(Trim(lines[k]), 1, 2) = <<"/", "/">>
          js == {j \in (i + 1)..Len(lines) :
                   ";" \in Range(lines[j]) /\ ~IsComment(j)}
          j == CHOOSE j \in js : \A l \in js : j <= l
          UpToTerminator(k) ==
            Trim(SubSeq(lines[k], 1, FirstOf(lines[k], 1, {";"}) - 1))
          At(k) == {n \in DOMAIN localDefinitions :
                      /\ localDefinitions[n].kind = "variable"
                      /\ localDefinitions[n].line = k - 1}
      IN Starts(i) /\ (\A h \in 1..(i - 1) : ~Starts(h)) /\ js # {}
         => /\ Cardinality(At(i)) = 1
            /\ \A n \in At(i) : \A k \in (i + 1)..j :
                  ~IsComment(k)
                    => Contains(localDefinitions[n].value, UpToTerminator(k))
            /\ \A k \in (j + 1)..Len(lines) :
                  ScssVariableMatch(lines[k]).ok => At(k) # {}

\* C28: an incremental scan is bounded to the changed file and its direct
\* dependents: while the incremental scan of a changed file runs, that
\* change being the only file event and no other scan running meanwhile, no
\* file but the changed file and the files with a recorded import of it has
\* been read or has had definitions inserted.
C28_IncrementalBounded ==
  \A i \in DOMAIN scans :
     scans[i].kind = "incremental" /\ Alone(i) /\ edits = 1
     => LET allowed == {scans[i].uri}
                         \cup Range(findImportingFiles(importCache, scans[i].uri))
        IN /\ Range(scans[i].okReads) \subseteq allowed
           /\ \A d \in Range(scans[i].extracted) : d.fileUri \in allowed

\* C29: drop policy: when a debounce timer fires while scanInProgress is
\* true, no scan starts, the request is not queued again (the timer is gone
\* and no timer is added), and the index, the import graph and the
\* processed-file set are as they were before the firing.
C29_DropPolicy ==
  [][TimerFired /\ scanInProgress
       => /\ scans' = scans
          /\ Len(timers') < Len(timers)
          /\ Range(timers') \subseteq Range(timers)
          /\ localDefinitions' = localDefinitions
          /\ importCache' = importCache
          /\ processedFiles' = processedFiles]_vars

\* The current timer has fired and started nothing: the only scans in
\* flight are full scans, the flag is set and no timer is left.
C29_Witness ==
  /\ debounceTimeout = "fired"
  /\ scanInProgress
  /\ timers = <<>>
  /\ scans # <<>>
  /\ \A i \in DOMAIN scans : scans[i].kind = "full" /\ scans[i].pc # "done"

\* C30: a change event that arrives while a scan is in flight is not lost:
\* its debounce timer fires only after that scan has finished, and the file
\* is then rescanned.  With one file event in all, its timer never fires
\* while scans that began before the event are still in flight; when it
\* fires, the rescan of the changed file starts.
C30_ChangeNotLost ==
  [][TimerFired /\ edits = 1
       => /\ ~(scans # <<>> /\ \A i \in DOMAIN scans : scans[i].epoch = 0)
          /\ (\A i \in DOMAIN scans : scans[i].epoch = 0)
               => /\ Len(scans') = Len(scans) + 1
                  /\ scans'[Len(scans')].kind = "incremental"]_vars

\* The files of the scan t on which a scanFile call of the batch loop has
\* returned.
Processed(t) ==
  {f \in Range(t.submitted) :
     \A k \in DOMAIN t.chains : \A j \in DOMAIN t.chains[k] :
        t.chains[k][j].uri # f}

\* C31: progress is reported after each batch: for every progress report of
\* a full scan with processed count p, the first p discovered files have
\* been processed by scanFile; the counts never decrease and never exceed
\* the total; the last report of an uncancelled scan is the total.
C31_ProgressAfterBatch ==
  \A i \in DOMAIN scans :
     LET t == scans[i] IN
     t.kind = "full"
     => /\ \A r \in DOMAIN t.reports :
             /\ t.reports[r] <= Len(t.files)
             /\ r > 1 => t.reports[r - 1] <= t.reports[r]
        /\ t.reports # <<>>
             => Range(Take(t.files, t.reports[Len(t.reports)])) \subseteq Processed(t)
        /\ t.pc = "done" /\ ~t.cancelled /\ t.files # <<>>
             => t.reports # <<>> /\ t.reports[Len(t.reports)] = Len(t.files)

\* C32: bounded parallelism: in parallel mode, at every moment of the
\* discovery of a full scan, the asynchronous operations in flight (the
\* stat and readDirectory calls awaited by the directory walks) are at most
\* the configured cap, whatever the shape of the tree.
C32_BoundedParallelism ==
  enableParallel /\ discovery.state = "walking"
  => Cardinality({c \in discovery.calls : c.stage \in {"stat", "readdir"}})
       <= MaxParallelScans

\* The candidates of import string imp found in a.scss, as the resolution
\* order states them: the path resolved against the directory of a.scss,
\* with the default extension appended when it lacks a stylesheet extension
\* and does not exist as written; then the same name with an underscore
\* before it.
FirstCandidate(imp) ==
  LET asWritten == [dir |-> Root, us |-> imp.us, stem |-> imp.stem, ext |-> imp.ext]
  IN IF imp.ext \notin {".scss", ".css"} /\ ~ExistsSync(asWritten)
     THEN [asWritten EXCEPT !.ext = imp.ext \o ".scss"]
     ELSE asWritten

SecondCandidate(imp) == [FirstCandidate(imp) EXCEPT !.us = @ + 1]

\* C33: import resolution tries its candidates in a fixed order and follows
\* existing files only: the first existing one of the two candidates is the
\* file scanned (the plain name before the partial name), and when neither
\* exists nothing is scanned.
C33_ResolutionOrder ==
  resolution.done
  => LET first == FirstCandidate(resolution.imp)
         second == SecondCandidate(resolution.imp)
     IN /\ ExistsSync(first) => resolution.to = first
        /\ ~ExistsSync(first) /\ ExistsSync(second) => resolution.to = second
        /\ ~ExistsSync(first) /\ ~ExistsSync(second) => resolution.to = NoFile
        /\ resolution.to # NoFile => ExistsSync(resolution.to)

\* Import 'c' has been followed with both c.scss and _c.scss present, and
\* no file named c.
C33_Witness ==
  /\ resolution.done
  /\ resolution.imp = Name(0, "c", "")
  /\ ExistsSync(Path(Root, Name(0, "c", ".scss")))
  /\ ExistsSync(Path(Root, Name(1, "c", ".scss")))
  /\ ~ExistsSync(Path(Root, Name(0, "c", "")))
  /\ resolution.to = Path(Root, Name(0, "c", ".scss"))

\* C34: no changed file is lost to coalescing: when two different files
\* have each been written once, these being the only events, then as long
\* as no scan has started the rescan of each of them is pending (so that
\* both are rescanned once the events have quieted).
C34_NoLossToCoalescing ==
  \A f, g \in Files :
     /\ f # g /\ edits = 2 /\ fullScans = 0
     /\ disk[f].ver = 2 /\ disk[g].ver = 2
     /\ scans = <<>> /\ scansInBurst[f] = 0 /\ scansInBurst[g] = 0
     => /\ \E j \in DOMAIN timers : timers[j].uri = f
        /\ \E j \in DOMAIN timers : timers[j].uri = g

\* C35: deletion wins over a scan in flight: once the delete event of a
\* file f has been handled, the index holds no definition of f as long as f
\* has not been created again.
C35_DeletionWins ==
  \A f \in InitialFiles(workspace) :
     ~disk[f].present => DefinitionsOf(f) = <<>>

\* C36: an unreadable file is skipped without losing data: when the
\* incremental rescan of a changed file f has completed, f's read having
\* failed, no other scan having run meanwhile and no event having come
\* since it started, the definitions of f in the index are those that were
\* there before the rescan.
C36_UnreadableKeepsData ==
  \A i \in DOMAIN scans :
     /\ Finished(i, "incremental") /\ Alone(i)
     /\ scans[i].uri \in scans[i].failed
     /\ scans[i].uri \notin Range(scans[i].okReads)
     => DefinitionsOf(scans[i].uri) = scans[i].before

\* C37: a full scan always terminates: whatever numbers the configuration
\* gives for maxFilesPerBatch and maxParallelScans, zero and negative ones
\* included, scanWorkspace eventually returns with scanInProgress false.
C37_FullScanTerminates ==
  <>(~scanInProgress /\ \A i \in DOMAIN scans : scans[i].pc = "done")

\* C38: the result of a full scan does not depend on the processing order:
\* a full scan that started on an empty index, alone and with the disk
\* unchanged while it ran, leaves the same multiset of definitions in the
\* index as the scan of the same content whose reads settle in the order in
\* which they were started, whatever the order in which its own reads
\* settled.
C38_OrderIndependent ==
  \A i \in DOMAIN scans :
     /\ Finished(i, "full") /\ Alone(i)
     /\ scans[i].emptyIndex /\ fullScans = 1 /\ edits = 0
     => SameBag(localDefinitions, ScannedInSubmissionOrder)

\* C39: an incremental rescan leaves the import graph unchanged: no step in
\* which scanSingleFileAndDependents starts or goes on adds, removes or
\* changes an entry of importCache, and every step that changes importCache
\* is a delete event or the settling of a read of a full scan.
C39_ImportGraphFrame ==
  [][LET started == \E i \in DOMAIN scans' :
                       scans'[i].kind = "incremental" /\ i \notin DOMAIN scans
         Read(kind) == \E i \in DOMAIN scans :
                          /\ scans[i].kind = kind /\ scans[i].pc # "done"
                          /\ i \in DOMAIN scans'
                          /\ scans'[i].okReads # scans[i].okReads
         deleted == \E f \in Files : disk[f].present /\ ~disk'[f].present
     IN /\ started \/ Read("incremental") => importCache' = importCache
        /\ importCache' # importCache => deleted \/ Read("full")]_vars

\* An incremental rescan has read a file that imports another and has
\* completed, and importCache has no entry for the file.
C39_Witness ==
  \E i \in DOMAIN scans :
     /\ Finished(i, "incremental")
     /\ scans[i].uri \in Range(scans[i].okReads)
     /\ extractImports(scans[i].uri, disk[scans[i].uri].ver) # <<>>
     /\ ~MapHas(importCache, scans[i].uri)

=============================================================================
